---- MODULE Spec2Model ----
(***************************************************************************)
(* A model of the playwright-impact analyzer: the change-set normalizer,   *)
(* the global-watch evaluator, the import-graph selector, the semantic     *)
(* seed and propagation, the fixture map and the two-stage spec selection  *)
(* (Stage A prefilter, Stage B method filter), as analyzeImpactedSpecs     *)
(* runs them.  The selection bias is not an input of the model: every run  *)
(* computes the result under each bias side by side on the same repository *)
(* state, so that properties relating two biases are state predicates.     *)
(***************************************************************************)
EXTENDS Integers, Sequences, FiniteSets, TLC

\* ------------------------------------------------------------------ bounds

\* The largest access-chain depth of a call site in a modelled spec file.
MaxChainDepth == 3
\* The largest number of call sites in a modelled spec file.
MaxCalls == 2
\* The largest number of lines the comparison with the base prints.
MaxLines == 2
\* The top-level statements of a generated revision besides its classes.
MaxStatements == 2
\* The class declarations of the first scanned file.
MaxDeclarations == 2
\* The changed member names of one propagation.
MaxChangedMethods == 2

\* --------------------------------------------------------- program constants

MAX_PRECISE_CHAIN_DEPTH == 2

DEFAULT_SELECTION_BIAS == "fail-open"

DIRECT_CHANGED_SPEC_STATUSES == {"A", "M", "R"}

SelectionBiases == {"fail-open", "balanced", "fail-closed"}

ReasonCodes ==
  {"direct-changed-spec", "matched-import-graph", "matched-precise",
   "matched-uncertain-fail-open", "retained-no-impacted-methods",
   "retained-no-bindings", "retained-read-error", "global-watch-force-all"}

\* JavaScript's null where a string is expected.
Null == "null"

\* JavaScript's null where a file content or a parsed model of a file or
\* of a member is expected.
NoContent == [missing |-> TRUE]

\* JavaScript's null where a member key is expected.
NoKey == <<>>

\* ------------------------------------------------------------------ state
\* The state of one call: its options, the repository it runs on, its
\* position pc, what each stage has computed, and the message of the error
\* it threw; traversal is the queue and the visited set of the traversal of
\* buildImpactedMethodsByClass while its loop runs.

VARIABLES options, repo, pc, changed, graph, semantic, filterInput,
          filterOut, result, thrown, traversal

vars == <<options, repo, pc, changed, graph, semantic, filterInput,
          filterOut, result, thrown, traversal>>

\* The value of a variable no stage has written yet.
NotYet == [written |-> FALSE]

\* ------------------------------------------------------------------ paths

RepoRoot == "/repo"

MovedFile == "lib/P.ts"
WatchFile == "playwright.stem.config.ts"
TypesFile == "src/fixtures/types.ts"
OldPomFile == "src/pages/Old.ts"
PomFile == "src/pages/P.ts"
HelperFile == "src/utils/helper.ts"
SpecA == "tests/a.spec.ts"
SpecB == "tests/b.spec.ts"

\* The repository-relative paths of the modelled repository, listed in the
\* order String.prototype.localeCompare gives them.
PathOrder ==
  <<MovedFile, WatchFile, TypesFile, OldPomFile, PomFile, HelperFile, SpecA,
    SpecB>>

RelPaths == {PathOrder[i] : i \in 1..Len(PathOrder)}

PathRank(p) == CHOOSE i \in 1..Len(PathOrder) : PathOrder[i] = p

\* path.join(repoRoot, relative) and path.resolve(repoRoot, relative): the
\* absolute path is the pair of the root and the relative path.
PathJoin(root, rel) == <<root, rel>>

\* path.relative(repoRoot, absolute).
PathRelative(root, abs) == abs[2]

AbsPaths == {PathJoin(RepoRoot, p) : p \in RelPaths}

\* a.localeCompare(b) on two absolute paths under the same root: negative,
\* zero or positive.
LocaleCompare(a, b) == PathRank(a[2]) - PathRank(b[2])

\* filePath.endsWith(`.spec${ext}`) for one of the effective extensions.
IsSpecPath(rel) == rel \in {SpecA, SpecB}

\* filePath.startsWith(profile.changedSpecPrefix), the prefix being "tests/".
HasChangedSpecPrefix(rel) == rel \in {SpecA, SpecB}

\* The files listFilesRecursive(testsRoot) can return: those under "tests".
UnderTestsRoot(rel) == rel \in {SpecA, SpecB}

\* The files under the analysis roots "src/pages" and "src/utils".
UnderAnalysisRoots(rel) == rel \in {OldPomFile, PomFile, HelperFile}

\* profile.isRelevantPomPath of the profile of the call: the predicate
\* "pages-and-utils" accepts the sources under "src/pages/" and
\* "src/utils/", the predicate "every-ts" every .ts file.
IsRelevantPomPath(rel) ==
  IF options.profile.isRelevantPomPath = "every-ts" THEN rel \in RelPaths
  ELSE rel \in {OldPomFile, PomFile, HelperFile}

\* path.extname(filePath) is one of the effective extensions [".ts", ".tsx"].
IsValidExtension(rel) == rel \in RelPaths

\* regex.test(relative) for one of the profile's global-watch patterns, the
\* pattern list being ["playwright.*.config.ts"].
MatchesWatchPattern(rel) == rel = WatchFile

\* ---------------------------------------------------------------- sequences

SeqToSet(s) == {s[i] : i \in 1..Len(s)}

RECURSIVE InsertSorted(_, _)
\* One step of Array.prototype.sort (stable): x goes after every element that
\* does not compare greater than it.
InsertSorted(s, x) ==
  IF s = <<>> THEN <<x>>
  ELSE IF LocaleCompare(x, Head(s)) < 0 THEN <<x>> \o s
  ELSE <<Head(s)>> \o InsertSorted(Tail(s), x)

RECURSIVE SortPathsFrom(_, _)
SortPathsFrom(s, acc) ==
  IF s = <<>> THEN acc ELSE SortPathsFrom(Tail(s), InsertSorted(acc, Head(s)))

\* A variant of the sort that leaves the list as it is.
SortPathsSkipped(s) == s

\* list.sort((a, b) => a.localeCompare(b)) of a list of absolute paths.
SortPaths(s) == SortPathsFrom(s, <<>>)

RECURSIVE DedupFrom(_, _)
DedupFrom(s, acc) ==
  IF s = <<>> THEN acc
  ELSE DedupFrom(Tail(s),
                 IF Head(s) \in SeqToSet(acc) THEN acc ELSE Append(acc, Head(s)))

\* Array.from(new Set(list)): the first occurrences, in insertion order.
ArrayFromSet(s) == DedupFrom(s, <<>>)

RECURSIVE FilterSeq(_, _)
\* list.filter on membership in the set keep.
FilterSeq(s, keep) ==
  IF s = <<>> THEN <<>>
  ELSE IF Head(s) \in keep THEN <<Head(s)>> \o FilterSeq(Tail(s), keep)
  ELSE FilterSeq(Tail(s), keep)

RECURSIVE MapJoin(_)
\* relativePaths.map((p) => path.join(repoRoot, p)).
MapJoin(s) ==
  IF s = <<>> THEN <<>> ELSE <<PathJoin(RepoRoot, Head(s))>> \o MapJoin(Tail(s))

IsSortedNoDup(s) ==
  \A i \in 1..Len(s), j \in 1..Len(s) : i < j => LocaleCompare(s[i], s[j]) < 0

\* ------------------------------------------------- change-set normalizer

STATUS_PRIORITY == [D |-> 4, R |-> 3, M |-> 2, A |-> 1]

CanonicalStatuses == {"A", "M", "D", "R"}

\* STATUS_PRIORITY[status] || 0.
StatusPriority(status) ==
  IF status \in DOMAIN STATUS_PRIORITY THEN STATUS_PRIORITY[status] ELSE 0

\* The entry parseChangedEntryLine returns for a line "<status>\t<path>".
ParsedEntry(status, path) ==
  [status |-> status,
   oldPath |-> IF status = "A" THEN Null ELSE path,
   newPath |-> IF status = "D" THEN Null ELSE path,
   effectivePath |-> path,
   rawStatus |-> status]

\* The entry parseChangedEntryLine returns for a rename or copy line
\* "<R|C><score>\t<old>\t<new>".
ParsedRename(status, old, new) ==
  [status |-> status, oldPath |-> old, newPath |-> new,
   effectivePath |-> new, rawStatus |-> status]

\* a || b on paths, null being falsy.
OrElse(a, b) == IF a # Null THEN a ELSE b

\* What parseChangedEntryLine returns for a line it cannot parse.
NoEntry == [parsed |-> FALSE]

\* The status words of the modelled git outputs, as String.toUpperCase and
\* rawStatus[0] map them.
ToUpperCase(word) == IF word = "m" THEN "M" ELSE word

StatusLetter(rawStatus) ==
  IF rawStatus = "R100" THEN "R" ELSE IF rawStatus = "C75" THEN "C"
  ELSE rawStatus

IsField(part) == part # ""

\* parseChangedEntryLine.  A line is the sequence of the fields that
\* line.split('\t') gives; no field of the modelled outputs has white space
\* around it.
ParseChangedEntryLine(line) ==
  LET parts == SelectSeq(line, IsField)
  IN IF Len(parts) < 2 THEN NoEntry
     ELSE IF StatusLetter(ToUpperCase(parts[1])) \in {"R", "C"}
       THEN IF Len(parts) < 3 THEN NoEntry
            ELSE [ParsedRename(StatusLetter(ToUpperCase(parts[1])),
                               parts[2], parts[3])
                    EXCEPT !.rawStatus = ToUpperCase(parts[1])]
     ELSE [ParsedEntry(StatusLetter(ToUpperCase(parts[1])), parts[2])
             EXCEPT !.rawStatus = ToUpperCase(parts[1])]

RECURSIVE ParseLines(_)
\* stdout.split(...).filter(Boolean).map(parseChangedEntryLine)
\*   .filter((entry) => Boolean(entry)), on the non-empty lines of stdout.
ParseLines(lines) ==
  IF lines = <<>> THEN <<>>
  ELSE (IF ParseChangedEntryLine(Head(lines)) = NoEntry THEN <<>>
        ELSE <<ParseChangedEntryLine(Head(lines))>>)
       \o ParseLines(Tail(lines))

\* The result of a git command that was not run.
NotRun == [status |-> 0, stdout |-> <<>>]

\* runDiffAndParse on what git diff --name-status -M printed and exited
\* with: the parsed entries, or the error thrown.
RunDiffAndParse(output) ==
  IF output.status # 0
    THEN [threw |-> TRUE, error |-> "git diff failed with code",
          entries |-> <<>>]
    ELSE [threw |-> FALSE, error |-> Null,
          entries |-> ParseLines(output.stdout)]

\* A variant of the normalization that maps a copy to an added entry
\* without a warning.
NormalizeCopySilently(entry) ==
  IF entry.status \in CanonicalStatuses \/ entry.status = "C"
    THEN [entry |-> [entry EXCEPT
                       !.status = IF entry.status = "C" THEN "A" ELSE @,
                       !.oldPath = IF entry.status = "C" THEN Null ELSE @],
          warnings |-> <<>>]
    ELSE [entry |-> [entry EXCEPT !.status = "M",
                       !.oldPath = OrElse(entry.oldPath, entry.effectivePath),
                       !.newPath = OrElse(entry.newPath, entry.effectivePath)],
          warnings |-> <<<<"Status fallback", entry.rawStatus, "M",
                           entry.effectivePath>>>>]

\* normalizeEntryStatus: the normalized entry and the warnings it pushes.
NormalizeEntryStatus(entry) ==
  IF entry.status \in CanonicalStatuses
    THEN [entry |-> entry, warnings |-> <<>>]
  ELSE IF entry.status = "C"
    THEN [entry |-> [entry EXCEPT !.status = "A", !.oldPath = Null],
          warnings |-> <<<<"Status fallback", entry.rawStatus, "A",
                           entry.effectivePath>>>>]
  ELSE [entry |-> [entry EXCEPT !.status = "M",
                     !.oldPath = OrElse(entry.oldPath, entry.effectivePath),
                     !.newPath = OrElse(entry.newPath, entry.effectivePath)],
        warnings |-> <<<<"Status fallback", entry.rawStatus, "M",
                         entry.effectivePath>>>>]

\* A variant of the merge that keeps the entry that came first.
MergeKeepingExisting(existing, incoming) == existing

\* mergeByPriority on an existing entry of the same effective path.
MergeByPriority(existing, incoming) ==
  IF StatusPriority(incoming.status) > StatusPriority(existing.status)
    THEN incoming
  ELSE IF StatusPriority(incoming.status) < StatusPriority(existing.status)
    THEN existing
  ELSE IF incoming.status = "R" /\ incoming.oldPath # Null
          /\ incoming.newPath # Null
    THEN incoming
  ELSE existing

\* getUntrackedPaths on what git ls-files --others printed and exited with:
\* the non-empty lines, none when the command failed.  git lists the paths
\* in the order the sort of the function gives them.
GetUntrackedPaths(output) ==
  IF output.status # 0 THEN <<>> ELSE SelectSeq(output.stdout, IsField)

RECURSIVE UntrackedSourceEntriesOf(_)
\* getUntrackedSourceEntries: the untracked paths with a valid extension that
\* the profile accepts, each as an added entry.
UntrackedSourceEntriesOf(untracked) ==
  IF untracked = <<>> THEN <<>>
  ELSE LET p == Head(untracked)
           rest == UntrackedSourceEntriesOf(Tail(untracked))
       IN IF IsValidExtension(p) /\ IsRelevantPomPath(p)
            THEN <<[status |-> "A", oldPath |-> Null, newPath |-> p,
                    effectivePath |-> p,
                    rawStatus |-> "A (untracked source)"]>> \o rest
            ELSE rest

RECURSIVE UntrackedSpecPathsOf(_)
\* getUntrackedSpecPaths: the untracked paths under changedSpecPrefix that
\* are spec files.
UntrackedSpecPathsOf(untracked) ==
  IF untracked = <<>> THEN <<>>
  ELSE LET p == Head(untracked)
           rest == UntrackedSpecPathsOf(Tail(untracked))
       IN IF HasChangedSpecPrefix(p) /\ IsSpecPath(p)
            THEN <<p>> \o rest ELSE rest

RECURSIVE MergeEntries(_, _)
\* The merge loop of getChangedEntries over the combined entries: acc.merged
\* is mergedByPath, acc.warnings the warnings and acc.hits statusFallbackHits.
MergeEntries(combined, acc) ==
  IF combined = <<>> THEN acc
  ELSE LET entry == Head(combined)
           norm == NormalizeEntryStatus(entry)
           normalized == norm.entry
           key == normalized.effectivePath
           merged == IF key \in DOMAIN acc.merged
                       THEN MergeByPriority(acc.merged[key], normalized)
                       ELSE normalized
       IN MergeEntries(Tail(combined),
            [merged |-> [k \in DOMAIN acc.merged \cup {key} |->
                           IF k = key THEN merged ELSE acc.merged[k]],
             warnings |-> acc.warnings \o norm.warnings,
             hits |-> acc.hits
                      + (IF normalized.status # entry.status THEN 1 ELSE 0)])

RECURSIVE EntriesByPath(_, _)
\* Array.from(mergedByPath.values()).sort(by effectivePath): the keys of the
\* map are distinct, so the sorted list holds them in path order.
EntriesByPath(merged, i) ==
  IF i > Len(PathOrder) THEN <<>>
  ELSE IF PathOrder[i] \in DOMAIN merged
    THEN <<merged[PathOrder[i]]>> \o EntriesByPath(merged, i + 1)
  ELSE EntriesByPath(merged, i + 1)

EmptyMap == [k \in {} |-> Null]

\* The part of getChangedEntries that follows the two diffs: the untracked
\* sources, the merge by effective path and the counts by source.
MergedChanges(baseRef, baseHeadEntries, workingTreeEntries, untrackedEntries) ==
  LET combined0 == baseHeadEntries \o workingTreeEntries
      combined1 == IF baseRef = Null /\ combined0 = <<>>
                     THEN combined0 \o workingTreeEntries ELSE combined0
      acc == MergeEntries(combined1 \o untrackedEntries,
               [merged |-> EmptyMap, warnings |-> <<>>, hits |-> 0])
  IN [threw |-> FALSE, error |-> Null,
      entries |-> EntriesByPath(acc.merged, 1),
      warnings |-> acc.warnings,
      statusFallbackHits |-> acc.hits,
      changedEntriesBySource |->
        [fromBaseHead |-> Len(baseHeadEntries),
         fromWorkingTree |-> Len(workingTreeEntries),
         fromUntracked |-> Len(untrackedEntries)]]

\* The two calls of runDiffAndParse of getChangedEntries, the second one
\* made only when the first returned.
DiffsThenMerge(baseRef, baseHead, workingTree, untracked) ==
  IF baseHead.threw THEN [threw |-> TRUE, error |-> baseHead.error]
  ELSE IF workingTree.threw THEN [threw |-> TRUE, error |-> workingTree.error]
  ELSE MergedChanges(baseRef, baseHead.entries, workingTree.entries,
                     UntrackedSourceEntriesOf(GetUntrackedPaths(untracked)))

\* A variant of getChangedEntries that always compares the working tree.
GetChangedEntriesWithWorkingTree(baseRef, includeWorkingTreeWithBase, git) ==
  DiffsThenMerge(
    baseRef,
    RunDiffAndParse(IF baseRef # Null THEN git.baseHead ELSE NotRun),
    RunDiffAndParse(git.workingTree),
    git.untracked)

\* getChangedEntries.  git holds what the three git commands print and
\* exit with: baseHead (git diff base...HEAD), workingTree (git diff HEAD)
\* and untracked (git ls-files --others).
GetChangedEntries(baseRef, includeWorkingTreeWithBase, git) ==
  DiffsThenMerge(
    baseRef,
    RunDiffAndParse(IF baseRef # Null THEN git.baseHead ELSE NotRun),
    RunDiffAndParse(IF baseRef = Null \/ includeWorkingTreeWithBase
                      THEN git.workingTree ELSE NotRun),
    git.untracked)

\* [entry.effectivePath, entry.oldPath, entry.newPath].filter(Boolean)
EntryCandidates(entry) ==
  {entry.effectivePath, entry.oldPath, entry.newPath} \ {Null}

\* A variant of the filter that looks at the effective path only.
IsEffectivePathRelevant(entry) == IsRelevantPomPath(entry.effectivePath)

\* changedPomEntries of analyzeImpactedSpecs.
IsChangedPomEntry(entry) ==
  \E p \in EntryCandidates(entry) : IsRelevantPomPath(p)

\* changedSpecEntries of analyzeImpactedSpecs.
IsChangedSpecEntry(entry) ==
  HasChangedSpecPrefix(entry.effectivePath) /\ IsSpecPath(entry.effectivePath)

\* getStatusSummary.
GetStatusSummary(entries) ==
  [s \in CanonicalStatuses |->
     Cardinality({i \in 1..Len(entries) : entries[i].status = s})]

\* ------------------------------------------------ Stage B: method filter
\* A spec file's text is modelled by what the TypeScript walk of Stage B
\* reads from it, in the pre-order of the walk:
\*   bindings  the binding elements of the object patterns of function
\*             parameters, [key, var]: key is the property name (or the
\*             name when there is none), var the bound identifier;
\*   nodes     the variable declarations and calls:
\*             [kind |-> "aliasDecl", alias, root, method]  const alias = root.method
\*             [kind |-> "aliasCall", alias]                alias()
\*             [kind |-> "call", access, root, method, depth]
\*               access "prop"    root....method()
\*               access "elemLit" root....["method"]()
\*               access "elemDyn" root....[expr]()
\*               depth is the number of accesses between root and the callee name.

\* What fs.readFileSync gives for a file that cannot be read.
Unreadable == [state |-> "unreadable"]

\* What the working tree holds at a path where there is no file.
Absent == [state |-> "absent"]

\* Map.get with a default for a missing key.
MapGet(map, key, default) == IF key \in DOMAIN map THEN map[key] ELSE default

\* Map.set.
MapSet(map, key, value) ==
  [k \in DOMAIN map \cup {key} |-> IF k = key THEN value ELSE map[k]]

RECURSIVE ParseBindingPattern(_, _, _, _)
\* parseBindingPattern over the binding elements, fixtureVarToClass being acc.
ParseBindingPattern(bindings, fixtureKeyToClass, fixtureKeys, acc) ==
  IF bindings = <<>> THEN acc
  ELSE LET element == Head(bindings)
           next == IF element.key \in fixtureKeys
                      /\ element.key \in DOMAIN fixtureKeyToClass
                     THEN MapSet(acc, element.var,
                                 fixtureKeyToClass[element.key])
                     ELSE acc
       IN ParseBindingPattern(Tail(bindings), fixtureKeyToClass, fixtureKeys,
                              next)

\* extractFixtureVariablesFromSpecAst.
ExtractFixtureVariablesFromSpecAst(sourceFile, fixtureKeyToClass, fixtureKeys) ==
  ParseBindingPattern(sourceFile.bindings, fixtureKeyToClass, fixtureKeys,
                      EmptyMap)

\* getAccessChainDepth(objectExpr) of a call node.
GetAccessChainDepth(node) == node.depth

\* A variant of the depth test that allows one more access.
TooDeepBeyondLimit(node) ==
  GetAccessChainDepth(node) > MAX_PRECISE_CHAIN_DEPTH + 1

\* chainDepth > MAX_PRECISE_CHAIN_DEPTH.
TooDeepForPrecise(node) == GetAccessChainDepth(node) > MAX_PRECISE_CHAIN_DEPTH

\* The visit of one node by collectImpactedMethodMatchesInSpec: acc holds
\* preciseMatches, uncertainCallSites and aliasCalls.
VisitNode(node, fixtureVarToClass, impactedMethodsByClass, acc) ==
  IF node.kind = "aliasDecl"
    THEN IF node.root \in DOMAIN fixtureVarToClass
           THEN [acc EXCEPT !.aliasCalls =
                   MapSet(acc.aliasCalls, node.alias,
                          [className |-> fixtureVarToClass[node.root],
                           methodName |-> node.method,
                           isUncertain |-> TRUE])]
           ELSE acc
  ELSE IF node.kind = "aliasCall"
    THEN IF node.alias \in DOMAIN acc.aliasCalls
           THEN LET alias == acc.aliasCalls[node.alias]
                    impactedMethods ==
                      MapGet(impactedMethodsByClass, alias.className, {})
                IN IF alias.methodName # Null
                      /\ alias.methodName \in impactedMethods
                      /\ ~alias.isUncertain
                     THEN [acc EXCEPT !.preciseMatches =
                             @ \cup {<<alias.className, alias.methodName>>}]
                     ELSE [acc EXCEPT !.uncertainCallSites = @ + 1]
           ELSE acc
  ELSE IF node.root \notin DOMAIN fixtureVarToClass THEN acc
  ELSE LET className == fixtureVarToClass[node.root]
           impactedMethods == MapGet(impactedMethodsByClass, className, {})
       IN IF node.access = "elemDyn"
            THEN [acc EXCEPT !.uncertainCallSites = @ + 1]
          ELSE IF TooDeepForPrecise(node)
            THEN [acc EXCEPT !.uncertainCallSites = @ + 1]
          ELSE IF node.method \in impactedMethods
            THEN [acc EXCEPT !.preciseMatches =
                    @ \cup {<<className, node.method>>}]
          ELSE acc

RECURSIVE VisitNodes(_, _, _, _)
VisitNodes(nodes, fixtureVarToClass, impactedMethodsByClass, acc) ==
  IF nodes = <<>> THEN acc
  ELSE VisitNodes(Tail(nodes), fixtureVarToClass, impactedMethodsByClass,
                  VisitNode(Head(nodes), fixtureVarToClass,
                            impactedMethodsByClass, acc))

\* Two variants of includeUncertain, against which the properties of the
\* selection bias are tested: the biases exchanged, and balanced treated
\* as fail-open.
IncludeUncertainWhenClosed(selectionBias) == selectionBias = "fail-closed"

IncludeUncertainUnlessClosed(selectionBias) == selectionBias # "fail-closed"

\* const includeUncertain = selectionBias === 'fail-open'.
IncludeUncertain(selectionBias) == selectionBias = "fail-open"

\* collectImpactedMethodMatchesInSpec.
CollectImpactedMethodMatchesInSpec(sourceFile, fixtureVarToClass, impactedMethodsByClass, selectionBias) ==
  LET acc == VisitNodes(sourceFile.nodes, fixtureVarToClass,
                        impactedMethodsByClass,
                        [preciseMatches |-> {}, uncertainCallSites |-> 0,
                         aliasCalls |-> EmptyMap])
  IN [preciseMatches |-> acc.preciseMatches,
      uncertainCallSites |-> acc.uncertainCallSites,
      shouldIncludeByUncertain |->
        IncludeUncertain(selectionBias) /\ acc.uncertainCallSites > 0]

\* fs.readFileSync(absolutePath, 'utf8') on the working tree files: the
\* content, or Unreadable when the call throws (no such file, or no
\* permission to read it).
ReadFileSync(files, abs) ==
  IF files[PathRelative(RepoRoot, abs)] \in {Absent, Unreadable}
    THEN Unreadable
    ELSE files[PathRelative(RepoRoot, abs)]

\* One pass of the loop of filterSpecsByImpactedMethods taken when
\* impactedMethodsByClass is empty: no file is read.
NoImpactedMethodsReason(specPath, directChangedSet, alwaysIncludeSet) ==
  IF specPath \in directChangedSet THEN "direct-changed-spec"
  ELSE IF specPath \in alwaysIncludeSet THEN "matched-import-graph"
  ELSE "retained-no-impacted-methods"

\* The decision of the main loop on a spec with fixture bindings, from the
\* result of collectImpactedMethodMatchesInSpec: the reason the spec is
\* kept for, or Null when it is dropped, and its uncertain call sites.
DecisionOnMatches(matchResult) ==
  IF matchResult.preciseMatches # {}
    THEN [reason |-> "matched-precise",
          uncertain |-> matchResult.uncertainCallSites]
  ELSE IF matchResult.shouldIncludeByUncertain
    THEN [reason |-> "matched-uncertain-fail-open",
          uncertain |-> matchResult.uncertainCallSites]
  ELSE [reason |-> Null, uncertain |-> matchResult.uncertainCallSites]

\* The decision of the main loop on a spec that was read, from the fixture
\* variables extractFixtureVariablesFromSpecAst found in it.
DecisionOnBindings(sourceFile, fixtureVarToClass, impactedMethodsByClass, selectionBias) ==
  IF DOMAIN fixtureVarToClass = {}
    THEN [reason |-> "retained-no-bindings", uncertain |-> 0]
    ELSE DecisionOnMatches(
           CollectImpactedMethodMatchesInSpec(sourceFile, fixtureVarToClass,
                                              impactedMethodsByClass,
                                              selectionBias))

\* A variant of the main loop that drops the spec it cannot read.
DecisionDroppingUnreadable(content, fixtureKeyToClass, fixtureKeys, impactedMethodsByClass, selectionBias) ==
  IF content = Unreadable
    THEN [reason |-> Null, uncertain |-> 0]
    ELSE DecisionOnBindings(
           content,
           ExtractFixtureVariablesFromSpecAst(content, fixtureKeyToClass,
                                              fixtureKeys),
           impactedMethodsByClass, selectionBias)

\* The decision of the main loop on a spec that is neither directly changed
\* nor import-matched, from what fs.readFileSync gave.
DecisionOnContent(content, fixtureKeyToClass, fixtureKeys, impactedMethodsByClass, selectionBias) ==
  IF content = Unreadable
    THEN [reason |-> "retained-read-error", uncertain |-> 0]
    ELSE DecisionOnBindings(
           content,
           ExtractFixtureVariablesFromSpecAst(content, fixtureKeyToClass,
                                              fixtureKeys),
           impactedMethodsByClass, selectionBias)

\* The decision of the main loop of filterSpecsByImpactedMethods on one
\* spec.
FilterDecision(specPath, directChangedSet, alwaysIncludeSet, fixtureKeyToClass, fixtureKeys, impactedMethodsByClass, selectionBias, files) ==
  IF specPath \in directChangedSet
    THEN [reason |-> "direct-changed-spec", uncertain |-> 0]
  ELSE IF specPath \in alwaysIncludeSet
    THEN [reason |-> "matched-import-graph", uncertain |-> 0]
  ELSE DecisionOnContent(ReadFileSync(files, specPath), fixtureKeyToClass,
                         fixtureKeys, impactedMethodsByClass, selectionBias)

\* The reasons under which a kept spec counts in retainedWithoutMethodFilter.
RetainedReasons ==
  {"retained-no-impacted-methods", "retained-no-bindings",
   "retained-read-error"}

\* A variant of the pass of the main loop that records a reason for a
\* dropped spec too.
FilterStepRecordingDropped(acc, specPath, d) ==
  IF d.reason = Null
    THEN [acc EXCEPT !.droppedByMethodFilter = @ + 1,
                     !.uncertainCallSites = @ + d.uncertain,
                     !.selectionReasons =
                        MapSet(acc.selectionReasons, specPath, "dropped")]
    ELSE [acc EXCEPT !.filteredSpecs = Append(@, specPath),
                     !.selectionReasons = MapSet(@, specPath, d.reason)]

\* The effect of one pass of the main loop on the accumulated result.
FilterStep(acc, specPath, d) ==
  IF d.reason = Null
    THEN [acc EXCEPT !.droppedByMethodFilter = @ + 1,
                     !.uncertainCallSites = @ + d.uncertain]
    ELSE [filteredSpecs |-> Append(acc.filteredSpecs, specPath),
          droppedByMethodFilter |-> acc.droppedByMethodFilter,
          retainedWithoutMethodFilter |->
            acc.retainedWithoutMethodFilter
            + (IF d.reason \in RetainedReasons THEN 1 ELSE 0),
          selectionReasons |->
            MapSet(acc.selectionReasons, specPath, d.reason),
          uncertainCallSites |-> acc.uncertainCallSites + d.uncertain,
          warnings |->
            IF d.reason = "matched-uncertain-fail-open"
              THEN Append(acc.warnings,
                          <<"Uncertain callsite retained spec", specPath>>)
              ELSE acc.warnings]

RECURSIVE FilterLoop(_, _, _, _, _, _, _, _, _)
\* The main loop of filterSpecsByImpactedMethods over selectedSpecs.
FilterLoop(specs, directChangedSet, alwaysIncludeSet, fixtureKeyToClass, fixtureKeys, impactedMethodsByClass, selectionBias, files, acc) ==
  IF specs = <<>> THEN acc
  ELSE FilterLoop(Tail(specs), directChangedSet, alwaysIncludeSet,
                  fixtureKeyToClass, fixtureKeys, impactedMethodsByClass,
                  selectionBias, files,
                  FilterStep(acc, Head(specs),
                    FilterDecision(Head(specs), directChangedSet,
                                   alwaysIncludeSet, fixtureKeyToClass,
                                   fixtureKeys, impactedMethodsByClass,
                                   selectionBias, files)))

EmptyFilterResult ==
  [filteredSpecs |-> <<>>, droppedByMethodFilter |-> 0,
   retainedWithoutMethodFilter |-> 0, selectionReasons |-> EmptyMap,
   uncertainCallSites |-> 0, warnings |-> <<>>]

\* The branch of filterSpecsByImpactedMethods taken when
\* impactedMethodsByClass is empty.
NoImpactedMethodsResult(selectedSpecs, directChangedSet, alwaysIncludeSet) ==
  [filteredSpecs |-> selectedSpecs,
   droppedByMethodFilter |-> 0,
   retainedWithoutMethodFilter |->
     Cardinality({i \in 1..Len(selectedSpecs) :
        NoImpactedMethodsReason(selectedSpecs[i], directChangedSet,
                                alwaysIncludeSet)
          = "retained-no-impacted-methods"}),
   selectionReasons |->
     [specPath \in SeqToSet(selectedSpecs) |->
        NoImpactedMethodsReason(specPath, directChangedSet,
                                alwaysIncludeSet)],
   uncertainCallSites |-> 0,
   warnings |-> <<>>]

\* The return of filterSpecsByImpactedMethods after the main loop:
\* filteredSpecs sorted by localeCompare.
SortedFilterResult(out) ==
  [out EXCEPT !.filteredSpecs = SortPaths(out.filteredSpecs)]

\* filterSpecsByImpactedMethods, files being the working tree.
FilterSpecsByImpactedMethods(selectedSpecs, directChangedSpecsAbs, alwaysIncludeSpecsAbs, fixtureKeyToClass, fixtureKeys, impactedMethodsByClass, selectionBias, files) ==
  IF Len(selectedSpecs) = 0 THEN EmptyFilterResult
  ELSE IF DOMAIN impactedMethodsByClass = {}
    THEN NoImpactedMethodsResult(selectedSpecs,
                                 SeqToSet(directChangedSpecsAbs),
                                 SeqToSet(alwaysIncludeSpecsAbs))
  ELSE SortedFilterResult(
         FilterLoop(selectedSpecs, SeqToSet(directChangedSpecsAbs),
                    SeqToSet(alwaysIncludeSpecsAbs), fixtureKeyToClass,
                    fixtureKeys, impactedMethodsByClass, selectionBias, files,
                    EmptyFilterResult))

\* ------------------------------------------------------------ file system
\* The working tree is a function from the relative paths to what is at the
\* path: Absent, Unreadable (the file exists, fs.readFileSync throws) or the
\* file's content.  Every content has the field imports: the relative paths
\* its import, require and re-export specifiers name.

\* fs.existsSync.
Exists(files, rel) == files[rel] # Absent

Readable(files, rel) == files[rel] \notin {Absent, Unreadable}

\* The relative paths of the set S as a list in localeCompare order.
SetToPathSeq(S) == FilterSeq(PathOrder, S)

\* listFilesRecursive(root), root being given by the set of the paths the
\* model has under it.
ListFilesRecursive(files, under) ==
  SetToPathSeq({p \in under : Exists(files, p)})

\* The paths under the tests root and under the analysis roots.
TestsRootPaths == {p \in RelPaths : UnderTestsRoot(p)}
AnalysisRootPaths == {p \in RelPaths : UnderAnalysisRoots(p)}

\* resolveModuleSpecifier over the specifiers of one file: a specifier
\* resolves to a candidate only when the candidate exists on disk.
ResolveModuleSpecifiers(files, importer) ==
  {d \in files[importer].imports : Exists(files, d)}

\* -------------------------------------------------------------- global watch

\* resolveWatchSeedFiles: the existing files that match a watch pattern.
ResolveWatchSeedFiles(files) ==
  {p \in RelPaths : Exists(files, p) /\ MatchesWatchPattern(p)}

RECURSIVE WatchClosureLoop(_, _, _, _)
\* The queue loop of resolveGlobalWatchClosure.
WatchClosureLoop(files, queue, visited, resolvedFiles) ==
  IF queue = <<>> THEN resolvedFiles
  ELSE LET currentAbs == Head(queue)
       IN IF currentAbs \in visited
            THEN WatchClosureLoop(files, Tail(queue), visited, resolvedFiles)
          ELSE IF ~Readable(files, currentAbs)
            THEN WatchClosureLoop(files, Tail(queue),
                                  visited \cup {currentAbs}, resolvedFiles)
          ELSE LET fresh == ResolveModuleSpecifiers(files, currentAbs)
                            \ resolvedFiles
               IN WatchClosureLoop(files, Tail(queue) \o SetToPathSeq(fresh),
                                   visited \cup {currentAbs},
                                   resolvedFiles \cup fresh)

\* resolveGlobalWatchClosure: the seeds and what they transitively import.
ResolveGlobalWatchClosure(files) ==
  LET seeds == ResolveWatchSeedFiles(files)
  IN WatchClosureLoop(files, SetToPathSeq(seeds), {}, seeds)

RECURSIVE CandidatesOfEntries(_)
\* The non-null effectivePath, oldPath and newPath of the entries.
CandidatesOfEntries(entries) ==
  IF entries = <<>> THEN {}
  ELSE EntryCandidates(Head(entries)) \cup CandidatesOfEntries(Tail(entries))

\* A variant of evaluateGlobalWatch that matches the watch patterns and
\* leaves out the import closure of the matched files.
EvaluateWatchPatternsOnly(files, changedEntries) ==
  [matchedPaths |->
     SetToPathSeq({c \in CandidatesOfEntries(changedEntries) :
                     MatchesWatchPattern(c)}),
   resolvedFiles |-> SetToPathSeq(ResolveGlobalWatchClosure(files))]

\* evaluateGlobalWatch.
EvaluateGlobalWatch(files, changedEntries) ==
  LET closure == ResolveGlobalWatchClosure(files)
      matched == {c \in CandidatesOfEntries(changedEntries) :
                    MatchesWatchPattern(c) \/ c \in closure}
  IN [matchedPaths |-> SetToPathSeq(matched),
      resolvedFiles |-> SetToPathSeq(closure)]

\* ------------------------------------------------------ import-graph selector

RECURSIVE ImportGraphLoop(_, _, _, _)
\* The first loop of selectSpecsByChangedImports: reverseDeps, from a
\* dependency to the files that import it.
ImportGraphLoop(files, queue, visited, reverseDeps) ==
  IF queue = <<>> THEN reverseDeps
  ELSE LET currentAbs == Head(queue)
       IN IF currentAbs \in visited
            THEN ImportGraphLoop(files, Tail(queue), visited, reverseDeps)
          ELSE IF ~Readable(files, currentAbs)
            THEN ImportGraphLoop(files, Tail(queue),
                                 visited \cup {currentAbs}, reverseDeps)
          ELSE LET deps == ResolveModuleSpecifiers(files, currentAbs)
                   edges == [d \in DOMAIN reverseDeps \cup deps |->
                               IF d \in deps
                                 THEN MapGet(reverseDeps, d, {})
                                      \cup {currentAbs}
                                 ELSE reverseDeps[d]]
               IN ImportGraphLoop(files,
                    Tail(queue)
                      \o SetToPathSeq({d \in deps : ~IsSpecPath(d)}),
                    visited \cup {currentAbs}, edges)

\* A variant of the second loop of selectSpecsByChangedImports that stops
\* at the files that import a changed seed themselves.
TraverseDirectImporters(reverseDeps, traverseQueue, traversed, impactedSpecs) ==
  UNION {{i \in MapGet(reverseDeps, seed, {}) : IsSpecPath(i)} :
           seed \in SeqToSet(traverseQueue)}

RECURSIVE TraverseImporters(_, _, _, _)
\* The second loop of selectSpecsByChangedImports: the spec files among the
\* transitive importers of the changed seeds.
TraverseImporters(reverseDeps, traverseQueue, traversed, impactedSpecs) ==
  IF traverseQueue = <<>> THEN impactedSpecs
  ELSE LET current == Head(traverseQueue)
       IN IF current \in traversed
            THEN TraverseImporters(reverseDeps, Tail(traverseQueue),
                                   traversed, impactedSpecs)
          ELSE LET importers == MapGet(reverseDeps, current, {})
               IN TraverseImporters(reverseDeps,
                    Tail(traverseQueue)
                      \o SetToPathSeq(importers \ (traversed \cup {current})),
                    traversed \cup {current},
                    impactedSpecs \cup {i \in importers : IsSpecPath(i)})

\* selectSpecsByChangedImports: the absolute paths of the selected specs.
SelectSpecsByChangedImports(files, changedPomEntries) ==
  LET specFiles ==
        FilterSeq(ListFilesRecursive(files, TestsRootPaths),
                  {p \in RelPaths : IsSpecPath(p)})
      reverseDeps == ImportGraphLoop(files, specFiles, {}, EmptyMap)
      changedSeeds == CandidatesOfEntries(changedPomEntries)
      impactedSpecs ==
        TraverseImporters(reverseDeps, SetToPathSeq(changedSeeds), {}, {})
  IN MapJoin(SetToPathSeq(impactedSpecs))

\* ----------------------------------------------------- class-impact helpers
\* The content of a source file under the analysis roots is a record
\*   imports  the relative paths its specifiers name,
\*   bytes    an identifier of the text (two revisions that differ only in
\*            layout or comments differ in bytes and in nothing else),
\*   runtime  the fingerprint of its top-level runtime statements, 0 when
\*            it has none,
\*   classes  its class declarations in source order, each
\*            [name, parent, members]; parent is Null without an extends
\*            clause; a member is [type, name, fp, hasBody, calls, composes]:
\*            type  "call", "ctor", "get", "set" or "field",
\*            fp    the fingerprint of its overloads and implementation (>= 1),
\*            calls the call sites of its body in source order,
\*            composes the <<field, class>> pairs it declares (a typed
\*                  property, or this.field = new Class() in a constructor).
\* A call site is [via, name, field]: via "this" (this.name()), "super"
\* (super.name()), "thisDyn" (this[expr]()), "superDyn" (super[expr]()),
\* "deep" (this.a.b.name()) or "field" (this.field.name()).

RECURSIVE SetToSeq(_)
\* Array.from(set): the members of the set in some order.
SetToSeq(S) ==
  IF S = {} THEN <<>>
  ELSE LET x == CHOOSE y \in S : TRUE IN <<x>> \o SetToSeq(S \ {x})

\* parseClassNames: the names the class regular expression finds.
ParseClassNames(content) ==
  IF content = NoContent THEN {}
  ELSE {content.classes[i].name : i \in 1..Len(content.classes)}

RECURSIVE ScanExtends(_, _)
\* The regular-expression loop of buildInheritanceGraph over the class
\* declarations of one file.
ScanExtends(classes, acc) ==
  IF classes = <<>> THEN acc
  ELSE LET c == Head(classes)
       IN ScanExtends(Tail(classes),
            IF c.parent = Null THEN acc
            ELSE [parentsByChild |->
                    MapSet(acc.parentsByChild, c.name, c.parent),
                  childrenByParent |->
                    MapSet(acc.childrenByParent, c.parent,
                           MapGet(acc.childrenByParent, c.parent, {})
                             \cup {c.name})])

RECURSIVE BuildInheritanceGraphFrom(_, _)
BuildInheritanceGraphFrom(contents, acc) ==
  IF contents = <<>> THEN acc
  ELSE BuildInheritanceGraphFrom(Tail(contents),
                                 ScanExtends(Head(contents).classes, acc))

\* buildInheritanceGraph over the contents of the page files, in the order
\* of pageFiles.
BuildInheritanceGraph(contents) ==
  BuildInheritanceGraphFrom(contents,
    [parentsByChild |-> EmptyMap, childrenByParent |-> EmptyMap])

RECURSIVE DescendantsLoop(_, _, _)
\* The queue loop of collectImpactedClasses.
DescendantsLoop(queue, impacted, childrenByParent) ==
  IF queue = <<>> THEN impacted
  ELSE LET fresh == MapGet(childrenByParent, Head(queue), {}) \ impacted
       IN DescendantsLoop(Tail(queue) \o SetToSeq(fresh),
                          impacted \cup fresh, childrenByParent)

\* readFileFromBaseRef: what `git show <base>:<path>` prints, null when the
\* command fails.  base maps the paths that exist at the base ref.
ReadFileFromBaseRef(checkout, rel) == MapGet(checkout.base, rel, NoContent)

\* readFileFromWorkingTree: null for a missing file.
ReadFileFromWorkingTree(checkout, rel) ==
  IF Exists(checkout.files, rel) THEN checkout.files[rel] ELSE NoContent

\* A variant of readChangeContents that reads the base content at the
\* effective path of the entry, the new path of a rename.
ReadChangeContentsAtEffectivePath(checkout, entry) ==
  [baseContent |-> IF entry.oldPath # Null
                     THEN ReadFileFromBaseRef(checkout, entry.effectivePath)
                     ELSE NoContent,
   headContent |-> IF entry.newPath # Null
                     THEN ReadFileFromWorkingTree(checkout, entry.newPath)
                     ELSE NoContent]

\* readChangeContents.
ReadChangeContents(checkout, entry) ==
  [baseContent |-> IF entry.oldPath # Null
                     THEN ReadFileFromBaseRef(checkout, entry.oldPath)
                     ELSE NoContent,
   headContent |-> IF entry.newPath # Null
                     THEN ReadFileFromWorkingTree(checkout, entry.newPath)
                     ELSE NoContent]

RECURSIVE ChangedClassNames(_, _)
\* The classes named in the base or the head content of the entries.
ChangedClassNames(checkout, entries) ==
  IF entries = <<>> THEN {}
  ELSE LET c == ReadChangeContents(checkout, Head(entries))
       IN ParseClassNames(c.baseContent) \cup ParseClassNames(c.headContent)
          \cup ChangedClassNames(checkout, Tail(entries))

\* collectImpactedClasses.
CollectImpactedClasses(checkout, changedPomEntries, childrenByParent) ==
  LET seed == ChangedClassNames(checkout, changedPomEntries)
  IN DescendantsLoop(SetToSeq(seed), seed, childrenByParent)

\* getFixtureKeysForClasses.
GetFixtureKeysForClasses(impactedClasses, classToFixtureKeys) ==
  UNION {MapGet(classToFixtureKeys, c, {}) : c \in impactedClasses}

\* ------------------------------------------------------------- fixture map
\* The fixture declaration file is [imports, declarations]: the type
\* aliases and interfaces in source order, each [name, members], a member
\* being the pair <<property name, type reference name>>.

\* isClassLikeTypeName: the name starts with an upper-case letter.
IsClassLikeTypeName(typeName) == typeName \notin {"number", "string"}

\* addMapping on classToFixtureKeys, a Map kept as the list of its keys in
\* insertion order and the set of fixture keys of each.
AddMapping(classToFixtureKeys, fixtureKey, className) ==
  [order |-> IF className \in DOMAIN classToFixtureKeys.keys
               THEN classToFixtureKeys.order
               ELSE Append(classToFixtureKeys.order, className),
   keys |-> MapSet(classToFixtureKeys.keys, className,
                   MapGet(classToFixtureKeys.keys, className, {})
                     \cup {fixtureKey})]

RECURSIVE AddPairs(_, _)
\* The pairs of one declaration, in order: only class-like type names count.
AddPairs(members, acc) ==
  IF members = <<>> THEN acc
  ELSE LET pair == Head(members)
       IN AddPairs(Tail(members),
                   IF IsClassLikeTypeName(pair[2])
                     THEN AddMapping(acc, pair[1], pair[2]) ELSE acc)

RECURSIVE AddDeclarations(_, _)
AddDeclarations(declarations, acc) ==
  IF declarations = <<>> THEN acc
  ELSE AddDeclarations(Tail(declarations),
                       AddPairs(Head(declarations).members, acc))

EmptyClassMap == [order |-> <<>>, keys |-> EmptyMap]

\* parseFixtureClassMap: an empty map when the file does not exist.
ParseFixtureClassMap(files) ==
  IF ~Exists(files, TypesFile) THEN EmptyClassMap
  ELSE AddDeclarations(files[TypesFile].declarations, EmptyClassMap)

RECURSIVE InvertClassMap(_, _, _)
\* The loop of parseFixtureMappings over classToFixtureKeys.entries(): a
\* fixture key set twice keeps the class set last.
InvertClassMap(order, keys, fixtureKeyToClass) ==
  IF order = <<>> THEN fixtureKeyToClass
  ELSE LET className == Head(order)
       IN InvertClassMap(Tail(order), keys,
            [k \in DOMAIN fixtureKeyToClass \cup keys[className] |->
               IF k \in keys[className] THEN className
               ELSE fixtureKeyToClass[k]])

\* parseFixtureMappings.
ParseFixtureMappings(files) ==
  LET classToFixtureKeys == ParseFixtureClassMap(files)
  IN [classToFixtureKeys |-> classToFixtureKeys.keys,
      fixtureKeyToClass |->
        InvertClassMap(classToFixtureKeys.order, classToFixtureKeys.keys,
                       EmptyMap)]

\* ------------------------------------------------------ Stage A: prefilter

\* extractFixtureUsagesFromSpec: the fixture keys of the binding elements.
ExtractFixtureUsagesFromSpec(content) ==
  {content.bindings[i].key : i \in 1..Len(content.bindings)}

\* The spec files selectSpecFiles reads.
StageASpecFiles(files) ==
  FilterSeq(ListFilesRecursive(files, TestsRootPaths),
            {p \in RelPaths : IsSpecPath(p)})

\* selectSpecFiles, every listed spec file being readable.
SelectSpecFiles(files, fixtureKeys) ==
  LET specFiles == StageASpecFiles(files)
      selected == {i \in 1..Len(specFiles) :
                     ExtractFixtureUsagesFromSpec(files[specFiles[i]])
                       \cap fixtureKeys # {}}
  IN SortPaths(MapJoin(FilterSeq(specFiles,
                                 {specFiles[i] : i \in selected})))

\* -------------------------------------------------- semantic change detector

IsCallableType(type) == type \in {"call", "ctor", "get", "set"}

\* parseFileModel(content).classModels.keys().
ClassModelNames(parsed) == ParseClassNames(parsed)

\* The members of the class models of the name className.
ClassMembers(parsed, className) ==
  IF parsed = NoContent THEN {}
  ELSE UNION {SeqToSet(parsed.classes[i].members) :
                i \in {j \in 1..Len(parsed.classes) :
                         parsed.classes[j].name = className}}

\* classModel.membersByIdentity.keys(): the pairs of type and name.
MemberIdentities(parsed, className) ==
  {<<m.type, m.name>> : m \in ClassMembers(parsed, className)}

\* classModel.membersByIdentity.get(identity) || null.
MemberByIdentity(parsed, className, identity) ==
  LET found == {m \in ClassMembers(parsed, className) :
                  <<m.type, m.name>> = identity}
  IN IF found = {} THEN NoContent ELSE CHOOSE m \in found : TRUE

\* classModel.callableMembersByName.keys().
CallableMemberNames(parsed, className) ==
  {m.name : m \in {x \in ClassMembers(parsed, className) :
                     IsCallableType(x.type)}}

\* A top-level statement: its syntax kind, whether an import or export is
\* type-only, and its printed text with comments removed and white space
\* normalized.
Statement(kind, typeOnly, text) ==
  [kind |-> kind, typeOnly |-> typeOnly, text |-> text]

\* sourceFile.statements: the statements of the file, the class
\* declarations after the others.
SourceStatements(content) ==
  content.statements
  \o [i \in 1..Len(content.classes) |->
        Statement("class", FALSE, content.classes[i])]

\* A variant of isRuntimeStatement that keeps every import.
IsRuntimeStatementAnyImport(statement) ==
  IF statement.kind \in {"class", "interface", "type-alias"} THEN FALSE
  ELSE IF statement.kind = "export" THEN ~statement.typeOnly
  ELSE TRUE

\* isRuntimeStatement.
IsRuntimeStatement(statement) ==
  IF statement.kind = "class" THEN FALSE
  ELSE IF statement.kind \in {"interface", "type-alias"} THEN FALSE
  ELSE IF statement.kind = "import" THEN ~statement.typeOnly
  ELSE IF statement.kind = "export" THEN ~statement.typeOnly
  ELSE TRUE

RECURSIVE RuntimeTexts(_)
\* The printed texts of the runtime statements, in order: what
\* getRuntimeFingerprint joins with a line feed.
RuntimeTexts(statements) ==
  IF statements = <<>> THEN <<>>
  ELSE (IF IsRuntimeStatement(Head(statements))
          THEN <<Head(statements).text>> ELSE <<>>)
       \o RuntimeTexts(Tail(statements))

\* getRuntimeFingerprint: the empty fingerprint for a missing revision.
GetRuntimeFingerprint(parsed) ==
  IF parsed = NoContent THEN <<>>
  ELSE RuntimeTexts(SourceStatements(parsed))

\* getMemberFingerprint: the empty fingerprint for a missing member.
GetMemberFingerprint(parsed, memberModel) ==
  IF parsed = NoContent \/ memberModel = NoContent THEN 0 ELSE memberModel.fp

\* addAllCallableMembers: the <<class, member>> pairs it adds.
AllCallableMembers(parsed) ==
  UNION {{<<c, n>> : n \in CallableMemberNames(parsed, c)} :
           c \in ClassModelNames(parsed)}

\* The <<class, member>> pairs the member diff of one entry adds.
ChangedMembersOfClass(parsedBase, parsedHead, className) ==
  LET identities == MemberIdentities(parsedBase, className)
                    \cup MemberIdentities(parsedHead, className)
      differs(identity) ==
        GetMemberFingerprint(parsedBase,
            MemberByIdentity(parsedBase, className, identity))
        # GetMemberFingerprint(parsedHead,
            MemberByIdentity(parsedHead, className, identity))
      callables == CallableMemberNames(parsedBase, className)
                   \cup CallableMemberNames(parsedHead, className)
  IN {<<className, id[2]>> : id \in {x \in identities :
                                differs(x) /\ IsCallableType(x[1])}}
     \cup (IF \E id \in identities : differs(id) /\ id[1] = "field"
             THEN {<<className, n>> : n \in callables} ELSE {})

\* The outcome of one pass of the loop of collectChangedMethodsByClass.
ChangedMethodsOfEntry(checkout, entry) ==
  LET c == ReadChangeContents(checkout, entry)
      parsedBase == c.baseContent
      parsedHead == c.headContent
      runtimeChanged ==
        GetRuntimeFingerprint(parsedBase) # GetRuntimeFingerprint(parsedHead)
      classNames == ClassModelNames(parsedBase) \cup ClassModelNames(parsedHead)
  IN IF c.baseContent # NoContent /\ c.headContent # NoContent
        /\ c.baseContent = c.headContent
       THEN [pairs |-> {}, runtimeChanged |-> FALSE]
       ELSE [pairs |->
               (IF runtimeChanged
                  THEN AllCallableMembers(parsedBase)
                       \cup AllCallableMembers(parsedHead)
                  ELSE {})
               \cup UNION {ChangedMembersOfClass(parsedBase, parsedHead, n) :
                             n \in classNames},
             runtimeChanged |-> runtimeChanged]

\* A Map from class name to a set of member names, from the set of the
\* <<class, member>> pairs added to it.
MapOfPairs(pairs) ==
  [c \in {p[1] : p \in pairs} |-> {p[2] : p \in {q \in pairs : q[1] = c}}]

\* The sum of the sizes of the sets of a Map.
TotalMethods(methodsByClass) ==
  Cardinality(UNION {{<<c, m>> : m \in methodsByClass[c]} :
                       c \in DOMAIN methodsByClass})

\* collectChangedMethodsByClass.
CollectChangedMethodsByClass(checkout, changedPomEntries) ==
  LET outcome(i) == ChangedMethodsOfEntry(checkout, changedPomEntries[i])
      idx == 1..Len(changedPomEntries)
      changedMethodsByClass == MapOfPairs(UNION {outcome(i).pairs : i \in idx})
  IN [changedMethodsByClass |-> changedMethodsByClass,
      stats |->
        [changedPomEntriesByStatus |-> GetStatusSummary(changedPomEntries),
         semanticChangedMethodsCount |-> TotalMethods(changedMethodsByClass),
         topLevelRuntimeChangedFiles |->
           Cardinality({i \in idx : outcome(i).runtimeChanged})]]

\* --------------------------------------------------- call-graph propagation

RECURSIVE ClassesOfFiles(_)
\* The class models of the page files, in the order of pageFiles.
ClassesOfFiles(contents) ==
  IF contents = <<>> THEN <<>>
  ELSE Head(contents).classes \o ClassesOfFiles(Tail(contents))

\* callableMemberKeyByClassAndName: the member keys `${class}#${member}`,
\* as pairs, and the classes that have a (possibly empty) class map.
CallableMemberKeys(classes) ==
  UNION {{<<classes[i].name, m.name>> :
            m \in {x \in SeqToSet(classes[i].members) :
                     IsCallableType(x.type)}} : i \in 1..Len(classes)}

ClassesWithMap(classes) == {classes[i].name : i \in 1..Len(classes)}

\* parentsByChild.get(className), null when there is none.
ParentOf(parentsByChild, className) == MapGet(parentsByChild, className, Null)

RECURSIVE ResolveInLineage(_, _, _, _)
ResolveInLineage(current, memberName, keys, parentsByChild) ==
  IF current = Null THEN NoKey
  ELSE IF <<current, memberName>> \in keys THEN <<current, memberName>>
  ELSE ResolveInLineage(ParentOf(parentsByChild, current), memberName, keys,
                        parentsByChild)

\* resolveCallableMemberKey.
ResolveCallableMemberKey(className, memberName, keys, parentsByChild, mode) ==
  ResolveInLineage(IF mode = "super" THEN ParentOf(parentsByChild, className)
                   ELSE className,
                   memberName, keys, parentsByChild)

RECURSIVE HasChangedMethodInLineage(_, _, _, _)
\* hasChangedMethodInLineage.
HasChangedMethodInLineage(className, memberName, changedMethodsByClass, parentsByChild) ==
  IF className = Null THEN FALSE
  ELSE IF memberName \in MapGet(changedMethodsByClass, className, {}) THEN TRUE
  ELSE HasChangedMethodInLineage(ParentOf(parentsByChild, className),
                                 memberName, changedMethodsByClass,
                                 parentsByChild)

RECURSIVE ComposedFieldsOfMembers(_, _)
\* classModel.composedFieldClassByName, filled in member order.
ComposedFieldsOfMembers(members, acc) ==
  IF members = <<>> THEN acc
  ELSE LET pairs == Head(members).composes
           next == [f \in DOMAIN acc \cup {pairs[i][1] : i \in 1..Len(pairs)} |->
                      IF \E i \in 1..Len(pairs) : pairs[i][1] = f
                        THEN pairs[CHOOSE i \in 1..Len(pairs) :
                                     /\ pairs[i][1] = f
                                     /\ \A j \in 1..Len(pairs) :
                                          pairs[j][1] = f => j <= i][2]
                        ELSE acc[f]]
       IN ComposedFieldsOfMembers(Tail(members), next)

\* composedFieldClassByNameByClass.get(className): the map of the class
\* model set last; the empty map stands for a class that has none.
ComposedFieldMap(classes, className) ==
  LET decls == {i \in 1..Len(classes) : classes[i].name = className}
  IN IF decls = {} THEN EmptyMap
     ELSE ComposedFieldsOfMembers(
            classes[CHOOSE i \in decls : \A j \in decls : j <= i].members,
            EmptyMap)

RECURSIVE ResolveComposedFieldClassInLineage(_, _, _, _)
\* resolveComposedFieldClassInLineage.
ResolveComposedFieldClassInLineage(className, fieldName, classes, parentsByChild) ==
  IF className = Null THEN Null
  ELSE LET fieldMap == ComposedFieldMap(classes, className)
       IN IF fieldName \in DOMAIN fieldMap
            THEN fieldMap[fieldName]
            ELSE ResolveComposedFieldClassInLineage(
                   ParentOf(parentsByChild, className), fieldName, classes,
                   parentsByChild)

RECURSIVE GetComposedClassesInLineage(_, _, _)
\* getComposedClassesInLineage.
GetComposedClassesInLineage(className, classes, parentsByChild) ==
  IF className = Null THEN {}
  ELSE LET fieldMap == ComposedFieldMap(classes, className)
       IN {fieldMap[f] : f \in DOMAIN fieldMap}
          \cup GetComposedClassesInLineage(
                 ParentOf(parentsByChild, className), classes, parentsByChild)

\* composedClassToOwnerClasses.get(composedClass).
OwnerClasses(classes, composedClass) ==
  {classes[i].name : i \in
     {j \in 1..Len(classes) :
        LET fieldMap == ComposedFieldsOfMembers(classes[j].members, EmptyMap)
        IN \E f \in DOMAIN fieldMap : fieldMap[f] = composedClass}}

RECURSIVE AllClassMembersAsCallees(_, _, _)
\* addAllClassMembersAsCallees: the member keys of the nearest class of the
\* lineage that has a class map; resolved is FALSE when there is none.
AllClassMembersAsCallees(current, classes, parentsByChild) ==
  IF current = Null THEN [resolved |-> FALSE, keys |-> {}]
  ELSE IF current \in ClassesWithMap(classes)
    THEN [resolved |-> TRUE,
          keys |-> {k \in CallableMemberKeys(classes) : k[1] = current}]
  ELSE AllClassMembersAsCallees(ParentOf(parentsByChild, current), classes,
                                parentsByChild)

\* The visit of one call site of the body of a member of callerClass: the
\* callees it adds and the warnings it pushes.
VisitCallSite(site, callerClass, classes, keys, parentsByChild) ==
  IF site.via \in {"this", "super"}
    THEN LET calleeKey == ResolveCallableMemberKey(callerClass, site.name,
                                                   keys, parentsByChild,
                                                   site.via)
         IN IF calleeKey # NoKey
              THEN [callees |-> {calleeKey}, warnings |-> <<>>]
              ELSE [callees |-> {},
                    warnings |-> <<<<"Unresolvable", site.via, site.name,
                                     callerClass>>>>]
  ELSE IF site.via \in {"thisDyn", "superDyn", "deep"}
    THEN LET mode == IF site.via = "superDyn" THEN "super" ELSE "this"
             all == AllClassMembersAsCallees(
                      IF mode = "super"
                        THEN ParentOf(parentsByChild, callerClass)
                        ELSE callerClass,
                      classes, parentsByChild)
         IN [callees |-> all.keys,
             warnings |->
               (IF ~all.resolved
                  THEN <<<<"Unresolvable lineage", mode, callerClass>>>>
                  ELSE <<>>)
               \o <<<<"Treated as uncertain", site.via, callerClass>>>>]
  ELSE LET composedClass ==
             ResolveComposedFieldClassInLineage(callerClass, site.field,
                                                classes, parentsByChild)
           calleeKey ==
             IF composedClass = Null THEN NoKey
             ELSE ResolveCallableMemberKey(composedClass, site.name, keys,
                                           parentsByChild, "this")
       IN IF composedClass = Null
            THEN [callees |-> {},
                  warnings |-> <<<<"Unknown composed field type", site.field,
                                   callerClass>>>>]
          ELSE IF calleeKey # NoKey
            THEN [callees |-> {calleeKey}, warnings |-> <<>>]
          ELSE [callees |-> {},
                warnings |-> <<<<"Unresolvable composed call", site.field,
                                 site.name, callerClass>>>>]

\* The callees and the warnings of one call site added to those of the
\* call sites before it.
AddCallees(acc, v) ==
  [callees |-> acc.callees \cup v.callees,
   warnings |-> acc.warnings \o v.warnings]

RECURSIVE VisitBody(_, _, _, _, _, _)
\* visit(bodyNode): the callees and the warnings of one caller.
VisitBody(calls, callerClass, classes, keys, parentsByChild, acc) ==
  IF calls = <<>> THEN acc
  ELSE VisitBody(Tail(calls), callerClass, classes, keys, parentsByChild,
                 AddCallees(acc, VisitCallSite(Head(calls), callerClass,
                                               classes, keys, parentsByChild)))

RECURSIVE CallableNames(_, _)
\* The keys of classModel.callableMembersByName, in insertion order.
CallableNames(members, acc) ==
  IF members = <<>> THEN acc
  ELSE CallableNames(Tail(members),
         IF IsCallableType(Head(members).type)
            /\ Head(members).name \notin SeqToSet(acc)
           THEN Append(acc, Head(members).name)
           ELSE acc)

\* callableMembersByName.get(name).implementationNode.  ensureMemberModel
\* sets the entry of the name whenever it creates a member model, so the
\* entry is the model of the identity (type:name) created last: of a getter
\* and a setter of one name, the one declared second.  The node is the last
\* declaration of that identity, for a method the last one with a body;
\* NoContent when the model has no implementation node.
ImplementationNode(members, name) ==
  LET idx == {i \in 1..Len(members) :
                IsCallableType(members[i].type) /\ members[i].name = name}
      created(t) == CHOOSE i \in idx :
                      /\ members[i].type = t
                      /\ \A j \in idx : members[j].type = t => i <= j
      types == {members[i].type : i \in idx}
      last == CHOOSE t \in types : \A u \in types : created(u) <= created(t)
      nodes == {i \in idx : /\ members[i].type = last
                            /\ (last = "call" => members[i].hasBody)}
  IN IF nodes = {} THEN NoContent
     ELSE members[CHOOSE i \in nodes : \A j \in nodes : j <= i]

RECURSIVE CallersOfMembers(_, _, _)
\* The callable members of one class model that have an implementation
\* node, one for each name of names.
CallersOfMembers(className, members, names) ==
  IF names = <<>> THEN <<>>
  ELSE (IF ImplementationNode(members, Head(names)) # NoContent
          THEN <<[className |-> className,
                  member |-> ImplementationNode(members, Head(names))]>>
          ELSE <<>>)
       \o CallersOfMembers(className, members, Tail(names))

RECURSIVE PutCaller(_, _)
\* callableNodeByMemberKey.set(memberKey, implementationNode): the node of
\* a key that is already there is replaced where it stands.
PutCaller(acc, callers) ==
  IF callers = <<>> THEN acc
  ELSE LET caller == Head(callers)
           at == {i \in 1..Len(acc) :
                    /\ acc[i].className = caller.className
                    /\ acc[i].member.name = caller.member.name}
       IN PutCaller(IF at = {} THEN Append(acc, caller)
                    ELSE [i \in 1..Len(acc) |->
                            IF i \in at THEN caller ELSE acc[i]],
                    Tail(callers))

RECURSIVE CallersOfClasses(_, _)
\* callableNodeByMemberKey.entries(), in insertion order.
CallersOfClasses(classes, acc) ==
  IF classes = <<>> THEN acc
  ELSE CallersOfClasses(Tail(classes),
         PutCaller(acc, CallersOfMembers(Head(classes).name,
                                         Head(classes).members,
                                         CallableNames(Head(classes).members,
                                                       <<>>))))

\* directEdges.set(callerKey, callees): the edges of one caller added to
\* acc.edges, the set of the <<caller, callee>> pairs.
AddDirectEdges(acc, caller, v) ==
  [edges |-> acc.edges
             \cup {<<<<caller.className, caller.member.name>>, c>> :
                     c \in v.callees},
   warnings |-> acc.warnings \o v.warnings]

RECURSIVE DirectEdgesLoop(_, _, _, _, _)
\* The loop that fills directEdges.
DirectEdgesLoop(callers, classes, keys, parentsByChild, acc) ==
  IF callers = <<>> THEN acc
  ELSE IF ~Head(callers).member.hasBody
    THEN DirectEdgesLoop(Tail(callers), classes, keys, parentsByChild, acc)
  ELSE DirectEdgesLoop(Tail(callers), classes, keys, parentsByChild,
         AddDirectEdges(acc, Head(callers),
           VisitBody(Head(callers).member.calls, Head(callers).className,
                     classes, keys, parentsByChild,
                     [callees |-> {}, warnings |-> <<>>])))

\* reverseEdges.get(current): the callers of the member key current.
CallersOf(edges, current) == {e[1] : e \in {x \in edges : x[2] = current}}

\* The loop without its test of the visited set.
UnvisitedCallersUntested(callers, visited) == callers

\* The callers the loop adds and pushes: `if (visited.has(caller)) continue`.
UnvisitedCallers(callers, visited) == callers \ visited

\* One turn of the while loop: the head of the queue is shifted and its
\* unvisited callers are marked and pushed.  shifted lists what has been
\* shifted so far.
ShiftQueue(t, fresh) ==
  [t EXCEPT !.queue = Tail(@) \o SetToSeq(fresh),
            !.visited = @ \cup fresh,
            !.shifted = Append(@, Head(t.queue))]

RECURSIVE ReverseBfs(_, _, _)
\* The reverse breadth-first traversal from the seed member keys.
ReverseBfs(queue, visited, edges) ==
  IF queue = <<>> THEN visited
  ELSE LET fresh == UnvisitedCallers(CallersOf(edges, Head(queue)), visited)
       IN ReverseBfs(Tail(queue) \o SetToSeq(fresh), visited \cup fresh, edges)

RECURSIVE CompositionLoop(_, _, _)
\* The queueForComposition loop: the owners of composed classes.
CompositionLoop(queue, projectionSet, classes) ==
  IF queue = <<>> THEN projectionSet
  ELSE LET fresh == OwnerClasses(classes, Head(queue)) \ projectionSet
       IN CompositionLoop(Tail(queue) \o SetToSeq(fresh),
                          projectionSet \cup fresh, classes)

\* The children map buildImpactedMethodsByClass rebuilds from parentsByChild.
ChildrenFromParents(parentsByChild) ==
  [p \in {parentsByChild[c] : c \in DOMAIN parentsByChild} |->
     {c \in DOMAIN parentsByChild : parentsByChild[c] = p}]

\* classesForProjection.
ClassesForProjection(impactedClasses, classes, parentsByChild) ==
  IF impactedClasses = {} THEN ClassesWithMap(classes)
  ELSE LET withOwners == CompositionLoop(SetToSeq(impactedClasses),
                                         impactedClasses, classes)
       IN DescendantsLoop(SetToSeq(withOwners), withOwners,
                          ChildrenFromParents(parentsByChild))

\* A projection loop that records every impacted name for every class.
IsProjectedForEveryName(className, memberName, visited, changedMethodsByClass, classes, keys, parentsByChild) ==
  TRUE

\* The test of the projection loop on one class and one member name.
IsProjected(className, memberName, visited, changedMethodsByClass, classes, keys, parentsByChild) ==
  LET resolvedMemberKey == ResolveCallableMemberKey(className, memberName,
                                                    keys, parentsByChild,
                                                    "this")
      isResolvedImpacted ==
        resolvedMemberKey # NoKey /\ resolvedMemberKey \in visited
      isRemovedOrRenamedInLineage ==
        resolvedMemberKey = NoKey
        /\ HasChangedMethodInLineage(className, memberName,
                                     changedMethodsByClass, parentsByChild)
      isComposedImpacted ==
        \E composedClass \in GetComposedClassesInLineage(className, classes,
                                                         parentsByChild) :
          LET composedMemberKey ==
                ResolveCallableMemberKey(composedClass, memberName, keys,
                                         parentsByChild, "this")
          IN \/ composedMemberKey # NoKey /\ composedMemberKey \in visited
             \/ composedMemberKey = NoKey
                /\ HasChangedMethodInLineage(composedClass, memberName,
                                             changedMethodsByClass,
                                             parentsByChild)
  IN isResolvedImpacted \/ isRemovedOrRenamedInLineage \/ isComposedImpacted

\* The seed member keys: the changed methods resolved to callable members.
SeedKeys(changedMethodsByClass, keys, parentsByChild) ==
  UNION {{ResolveCallableMemberKey(c, m, keys, parentsByChild, "this") :
            m \in changedMethodsByClass[c]} :
           c \in DOMAIN changedMethodsByClass}
  \ {NoKey}

\* impactedMemberNames: the names of the visited members and of the
\* changed methods.
ImpactedMemberNames(visited, changedMethodsByClass) ==
  {k[2] : k \in visited}
  \cup UNION {changedMethodsByClass[c] : c \in DOMAIN changedMethodsByClass}

\* The value buildImpactedMethodsByClass returns.
ImpactedMethodsResult(impactedMethodsByClass, warnings) ==
  [impactedMethodsByClass |-> impactedMethodsByClass,
   stats |-> [impactedMethodsTotal |-> TotalMethods(impactedMethodsByClass)],
   warnings |-> warnings]

\* The projection of the visited member keys on the classes for projection.
ProjectImpactedMethods(impactedClasses, changedMethodsByClass, parentsByChild, classes, keys, warnings, visited) ==
  ImpactedMethodsResult(
    MapOfPairs(
      {<<c, m>> \in ClassesForProjection(impactedClasses, classes,
                                        parentsByChild)
                   \X ImpactedMemberNames(visited, changedMethodsByClass) :
         IsProjected(c, m, visited, changedMethodsByClass, classes, keys,
                     parentsByChild)}),
    warnings)

\* The reverse traversal of the direct edges from the seed member keys.
PropagateFromSeeds(impactedClasses, changedMethodsByClass, parentsByChild, classes, keys, direct, seedKeys) ==
  ProjectImpactedMethods(impactedClasses, changedMethodsByClass,
                         parentsByChild, classes, keys, direct.warnings,
                         ReverseBfs(SetToSeq(seedKeys), seedKeys,
                                    direct.edges))

\* The direct call edges and the seeds over the callable member keys.
PropagateOverKeys(impactedClasses, changedMethodsByClass, parentsByChild, classes, keys) ==
  PropagateFromSeeds(impactedClasses, changedMethodsByClass, parentsByChild,
                     classes, keys,
                     DirectEdgesLoop(CallersOfClasses(classes, <<>>), classes, keys,
                                     parentsByChild,
                                     [edges |-> {}, warnings |-> <<>>]),
                     SeedKeys(changedMethodsByClass, keys, parentsByChild))

\* The class models of the page files and their callable member keys.
PropagateOverClasses(impactedClasses, changedMethodsByClass, parentsByChild, classes) ==
  PropagateOverKeys(impactedClasses, changedMethodsByClass, parentsByChild,
                    classes, CallableMemberKeys(classes))

\* buildImpactedMethodsByClass over the contents of the page files.
BuildImpactedMethodsByClass(impactedClasses, changedMethodsByClass, parentsByChild, contents) ==
  PropagateOverClasses(impactedClasses, changedMethodsByClass, parentsByChild,
                       ClassesOfFiles(contents))

\* ------------------------------------------------- the modelled repository
\* One page-object file (PomFile, OldPomFile before a rename), one helper
\* file that imports it, the fixture declaration file, a watched
\* configuration file and two spec files.

Method(name, fp, calls) ==
  [type |-> "call", name |-> name, fp |-> fp, hasBody |-> TRUE,
   calls |-> calls, composes |-> <<>>]

Field(name, fp) ==
  [type |-> "field", name |-> name, fp |-> fp, hasBody |-> FALSE,
   calls |-> <<>>, composes |-> <<>>]

ThisCall(name) == [via |-> "this", name |-> name, field |-> Null]

SuperCall(name) == [via |-> "super", name |-> name, field |-> Null]

\* class PageA { open() { this.leaf() }  leaf() { ... } }
PomRevision(bytes, openFp, leafFp) ==
  [imports |-> {}, bytes |-> bytes,
   statements |-> <<Statement("other", FALSE, 1)>>,
   classes |-> <<[name |-> "PageA", parent |-> Null,
                  members |-> <<Method("open", openFp, <<ThisCall("leaf")>>),
                                Method("leaf", leafFp, <<>>)>>]>>]

\* import ...; class PageA { title = ... }: a class without callable members.
FieldsRevision(bytes, runtime) ==
  [imports |-> {}, bytes |-> bytes,
   statements |-> <<Statement("other", FALSE, runtime)>>,
   classes |-> <<[name |-> "PageA", parent |-> Null,
                  members |-> <<Field("title", 1)>>]>>]

\* class PageA { open() { this.leaf(); this.gone() }  leaf() {} }: open
\* calls a member that no class of the lineage declares.
StrayRevision(bytes) ==
  [PomRevision(bytes, 3, 1) EXCEPT
     !.classes[1].members[1].calls = <<ThisCall("leaf"), ThisCall("gone")>>]

\* The edits of the page-object file: the base and the head revision.
PomEdits ==
  [leaf |-> [base |-> PomRevision(1, 1, 1), head |-> PomRevision(2, 1, 2)],
   open |-> [base |-> PomRevision(1, 1, 1), head |-> PomRevision(3, 2, 1)],
   format |-> [base |-> PomRevision(1, 1, 1), head |-> PomRevision(4, 1, 1)],
   same |-> [base |-> PomRevision(1, 1, 1), head |-> PomRevision(1, 1, 1)],
   stray |-> [base |-> PomRevision(1, 1, 1), head |-> StrayRevision(7)],
   fields |-> [base |-> FieldsRevision(5, 1), head |-> FieldsRevision(6, 2)]]

\* import { PageA } from '../pages/P';
\* class Widget { click() {} }  class SubPage extends PageA { extra() { super.open() } }
HelperRevision(bytes, clickFp) ==
  [imports |-> {PomFile}, bytes |-> bytes,
   statements |-> <<Statement("import", FALSE, 1)>>,
   classes |-> <<[name |-> "Widget", parent |-> Null,
                  members |-> <<Method("click", clickFp, <<>>)>>],
                 [name |-> "SubPage", parent |-> "PageA",
                  members |-> <<Method("extra", 1,
                                       <<SuperCall("open")>>)>>]>>]

\* The fixture declaration file: one declaration, or two declarations that
\* both declare the key "page".
TypesContents ==
  [plain |-> [imports |-> {},
              declarations |->
                <<[name |-> "Fixtures",
                   members |-> <<<<"page", "PageA">>, <<"widget", "Widget">>,
                                 <<"retries", "number">>>>]>>],
   twice |-> [imports |-> {},
              declarations |->
                <<[name |-> "WebFixtures",
                   members |-> <<<<"page", "PageA">>>>],
                  [name |-> "PartFixtures",
                   members |-> <<<<"page", "Widget">>>>]>>]]

Binding(key, var) == [key |-> key, var |-> var]

Call(access, root, method, depth) ==
  [kind |-> "call", access |-> access, root |-> root, method |-> method,
   depth |-> depth]

AliasDecl(alias, root, method) ==
  [kind |-> "aliasDecl", alias |-> alias, root |-> root, method |-> method]

AliasCall(alias) == [kind |-> "aliasCall", alias |-> alias]

\* The bodies of the first spec file in the pipeline runs:
\*   precise  test('t', ({ page }) => page.leaf())
\*   dynamic  test('t', ({ page }) => page[name]())
\*   deep     test('t', ({ page }) => page.a.b.c.leaf())
\*   unbound  test('t', ({ request }) => request.get())
SpecBodies ==
  [precise |-> [bindings |-> <<Binding("page", "page")>>,
                nodes |-> <<Call("prop", "page", "leaf", 0)>>],
   dynamic |-> [bindings |-> <<Binding("page", "page")>>,
                nodes |-> <<Call("elemDyn", "page", Null, 0)>>],
   deep |-> [bindings |-> <<Binding("page", "page")>>,
             nodes |-> <<Call("prop", "page", "leaf",
                              MAX_PRECISE_CHAIN_DEPTH + 1)>>],
   unbound |-> [bindings |-> <<Binding("request", "request")>>,
                nodes |-> <<Call("prop", "request", "get", 0)>>]]

\* A spec file: its imports and its body.
SpecContent(imports, body) ==
  [imports |-> imports, bindings |-> body.bindings, nodes |-> body.nodes,
   statements |-> <<Statement("other", FALSE, 9)>>, classes |-> <<>>]

\* The second spec file: test('t', ({ widget }) => widget.click()).
SpecBContent ==
  SpecContent({}, [bindings |-> <<Binding("widget", "widget")>>,
                   nodes |-> <<Call("prop", "widget", "click", 0)>>])

\* The head revision of the page-object file and the revisions of the
\* helper file.
UnchangedPom == PomRevision(1, 1, 1)
HelperBase == HelperRevision(7, 1)
HelperEdited == HelperRevision(8, 2)

PomChanges == {"none", "M", "R", "moved", "helper"}
SpecChanges == {"none", "M", "D"}
UnreadableChoices == {"none", PomFile, SpecA, TypesFile}

\* The repository of one scenario: what git reports, the working tree and
\* the files of the base ref.
\*   pomChange   PomFile modified ("M"), renamed from OldPomFile ("R"),
\*               renamed to MovedFile, out of the analysis roots ("moved"),
\*               the helper file modified ("helper"), or none of these;
\*   edit        the edit of the page-object file, a key of PomEdits;
\*   specChange  SpecA modified or deleted in the working tree;
\*   watchChange the watched configuration file modified;
\*   untrackedB  SpecB is an untracked file;
\*   aImports, wImports  SpecA / the watched file import the helper file;
\*   types       a key of TypesContents;  body  a key of SpecBodies;
\*   unreadable  the file that cannot be read, or "none".
\* Every git command of the scenario exits with 0.
Repository(pomChange, edit, specChange, watchChange, untrackedB, aImports, wImports, types, body, unreadable) ==
  LET pomBase == IF pomChange \in {"M", "R", "moved"}
                   THEN PomEdits[edit].base ELSE UnchangedPom
      pomHead == IF pomChange \in {"M", "R", "moved"}
                   THEN PomEdits[edit].head ELSE UnchangedPom
      content(p) ==
        IF p = MovedFile
          THEN IF pomChange = "moved" THEN pomHead ELSE Absent
        ELSE IF p = WatchFile
          THEN [imports |-> IF wImports THEN {HelperFile} ELSE {}]
        ELSE IF p = TypesFile THEN TypesContents[types]
        ELSE IF p = OldPomFile THEN Absent
        ELSE IF p = PomFile
          THEN IF pomChange = "moved" THEN Absent ELSE pomHead
        ELSE IF p = HelperFile
          THEN IF pomChange = "helper" THEN HelperEdited ELSE HelperBase
        ELSE IF p = SpecA
          THEN IF specChange = "D" THEN Absent
               ELSE SpecContent(IF aImports THEN {HelperFile} ELSE {},
                                SpecBodies[body])
        ELSE SpecBContent
  IN [git |->
        [baseHead |->
           [status |-> 0,
            stdout |->
              IF pomChange = "M" THEN <<<<"M", PomFile>>>>
              ELSE IF pomChange = "R"
                THEN <<<<"R100", OldPomFile, PomFile>>>>
              ELSE IF pomChange = "moved"
                THEN <<<<"R100", PomFile, MovedFile>>>>
              ELSE IF pomChange = "helper" THEN <<<<"M", HelperFile>>>>
              ELSE <<>>],
         workingTree |->
           [status |-> 0,
            stdout |->
              (IF watchChange THEN <<<<"M", WatchFile>>>> ELSE <<>>)
              \o (IF specChange = "none" THEN <<>>
                  ELSE <<<<specChange, SpecA>>>>)],
         untracked |->
           [status |-> 0,
            stdout |-> IF untrackedB THEN <<SpecB>> ELSE <<>>]],
      files |->
        [p \in RelPaths |->
           IF p = unreadable /\ content(p) # Absent THEN Unreadable
           ELSE content(p)],
      base |->
        [p \in (IF pomChange = "R" THEN {OldPomFile} ELSE {PomFile})
                 \cup {HelperFile} |->
           IF p = HelperFile THEN HelperBase ELSE pomBase]]

GitCommands == {"baseHead", "workingTree", "untracked"}

\* The repository r in which the git command named by command exits with
\* 128 and prints nothing.
FailingGit(r, command) ==
  IF command \notin GitCommands THEN r
  ELSE [r EXCEPT !.git[command] = [status |-> 128, stdout |-> <<>>]]

\* The profile of a call: given is FALSE when no profile object is passed,
\* and a field is Null when the profile lacks it.
Profiles ==
  [given : BOOLEAN, testsRootRelative : {"tests", Null},
   changedSpecPrefix : {"tests/", Null},
   isRelevantPomPath : {"pages-and-utils", "every-ts", Null}]

\* validateProfile: the message of the error it throws, Null when it
\* returns.
ValidateProfile(profile) ==
  IF ~profile.given THEN "Missing required profile configuration"
  ELSE IF profile.testsRootRelative = Null
    THEN "Missing profile.testsRootRelative"
  ELSE IF profile.changedSpecPrefix = Null
    THEN "Missing profile.changedSpecPrefix"
  ELSE IF profile.isRelevantPomPath = Null
    THEN "Missing profile.isRelevantPomPath(filePath) function"
  ELSE Null

\* A variant of the validation that tests repoRoot before the profile.
ValidationErrorRepoRootFirst(opts) ==
  IF opts.repoRoot = Null THEN "Missing required repoRoot"
  ELSE ValidateProfile(opts.profile)

\* The first two statements of analyzeImpactedSpecs: the message of the
\* error thrown, Null when both pass.
ValidationError(opts) ==
  IF ValidateProfile(opts.profile) # Null THEN ValidateProfile(opts.profile)
  ELSE IF opts.repoRoot = Null THEN "Missing required repoRoot"
  ELSE Null

\* The options of one call: the base ref is given and the working tree is
\* included with it.
OptionsSet ==
  [repoRoot : {RepoRoot, Null}, profile : Profiles,
   baseRef : {"main"}, includeWorkingTreeWithBase : {TRUE},
   includeUntrackedSpecs : BOOLEAN,
   globalWatchMode : {"force-all-in-project", "disabled"}]

\* ------------------------------------------------- analyzeImpactedSpecs
\* One call of analyzeImpactedSpecs, stepped through its stages.  pc is the
\* position of the call; result and filterOut hold, for each selection
\* bias, what the call and its Stage B return under that bias.

\* The options of the scenarios: a call whose configuration is incomplete,
\* and a call whose profile predicate accepts every .ts file, come with
\* one setting of the other options.
ScenarioOptions ==
  {o \in OptionsSet :
     /\ ~o.profile.given =>
          /\ o.profile.testsRootRelative = Null
          /\ o.profile.changedSpecPrefix = Null
          /\ o.profile.isRelevantPomPath = Null
     /\ ValidationError(o) # Null =>
          /\ o.profile.isRelevantPomPath # "every-ts"
          /\ o.includeUntrackedSpecs
     /\ ValidationError(o) # Null \/ o.profile.isRelevantPomPath = "every-ts"
          => o.globalWatchMode = "disabled"}

\* The scenarios: the incomplete configurations, the failing git commands,
\* the profile that accepts every file and the unreadable files each come
\* with one repository, the other choices vary together.
Init ==
  /\ \E opts \in ScenarioOptions,
        failing \in GitCommands \cup {"none"},
        unreadable \in UnreadableChoices :
       /\ ValidationError(opts) # Null => failing = "none"
       /\ opts.profile.isRelevantPomPath = "every-ts" =>
            failing = "none" /\ unreadable = "none"
       /\ ValidationError(opts) # Null \/ failing # "none" =>
            /\ unreadable = "none"
            /\ opts.includeUntrackedSpecs
            /\ opts.globalWatchMode = "disabled"
       /\ options = opts
       /\ \E pomChange \in PomChanges, edit \in DOMAIN PomEdits,
             types \in DOMAIN TypesContents, body \in DOMAIN SpecBodies :
            /\ pomChange # "M" =>
                 edit \in {"leaf", "same"} /\ body = "precise"
            /\ edit = "same" => pomChange \in {"M", "R"}
            /\ types = "twice" => pomChange = "M" /\ edit = "leaf"
            /\ unreadable # "none" =>
                 /\ pomChange \in {"none", "M"}
                 /\ edit = "leaf" /\ types = "plain" /\ body = "precise"
            /\ opts.profile.isRelevantPomPath = "every-ts" =>
                 pomChange = "none" /\ edit = "leaf" /\ types = "plain"
            /\ ValidationError(opts) # Null \/ failing # "none" =>
                 /\ pomChange = "M" /\ edit = "leaf"
                 /\ types = "plain" /\ body = "precise"
            /\ \E specChange \in SpecChanges, watchChange \in BOOLEAN,
                  untrackedB \in BOOLEAN, aImports \in BOOLEAN,
                  wImports \in BOOLEAN :
                 /\ specChange = "D" => unreadable # SpecA
                 /\ untrackedB \/ opts.includeUntrackedSpecs
                 /\ wImports => opts.globalWatchMode = "force-all-in-project"
                 /\ opts.profile.isRelevantPomPath = "every-ts" =>
                      /\ specChange = "none" /\ ~watchChange
                      /\ untrackedB /\ ~aImports /\ ~wImports
                 /\ ValidationError(opts) # Null \/ failing # "none" =>
                      /\ specChange = "M" /\ ~watchChange
                      /\ untrackedB /\ ~aImports /\ ~wImports
                 /\ repo = FailingGit(
                             Repository(pomChange, edit, specChange,
                                        watchChange, untrackedB, aImports,
                                        wImports, types, body, unreadable),
                             failing)
  /\ pc = "start"
  /\ changed = NotYet
  /\ graph = NotYet
  /\ semantic = NotYet
  /\ filterInput = NotYet
  /\ filterOut = NotYet
  /\ result = NotYet
  /\ thrown = Null
  /\ traversal = NotYet

\* The spec files under the tests root, as sorted absolute paths.
AllSpecsUnderTestsRoot(files) ==
  SortPaths(MapJoin(FilterSeq(ListFilesRecursive(files, TestsRootPaths),
                              {p \in RelPaths : IsSpecPath(p)})))

RECURSIVE EffectivePaths(_)
EffectivePaths(entries) ==
  IF entries = <<>> THEN <<>>
  ELSE <<Head(entries).effectivePath>> \o EffectivePaths(Tail(entries))

\* A variant of the status test that counts added specs only.
IsAddedStatus(entry) == entry.status = "A"

IsDirectStatus(entry) == entry.status \in DIRECT_CHANGED_SPEC_STATUSES

\* directChangedSpecFiles: the effective paths of the spec entries with a
\* direct status and, when asked for, the untracked specs.
DirectChangedSpecFiles(changedSpecEntries) ==
  SetToPathSeq(SeqToSet(ArrayFromSet(
    EffectivePaths(SelectSeq(changedSpecEntries, IsDirectStatus))
    \o (IF options.includeUntrackedSpecs
          THEN UntrackedSpecPathsOf(GetUntrackedPaths(repo.git.untracked))
          ELSE <<>>))))

\* What Stage 0 derives from the result r of getChangedEntries.
ChangesOf(r) ==
  [changedEntriesResult |-> r,
   changedPomEntries |-> SelectSeq(r.entries, IsChangedPomEntry),
   changedSpecEntries |-> SelectSeq(r.entries, IsChangedSpecEntry),
   globalWatch |->
     IF options.globalWatchMode = "disabled"
       THEN [matchedPaths |-> <<>>, resolvedFiles |-> <<>>]
       ELSE EvaluateGlobalWatch(repo.files, r.entries),
   directChangedSpecFiles |->
     DirectChangedSpecFiles(SelectSeq(r.entries, IsChangedSpecEntry))]

\* Stage 0 of analyzeImpactedSpecs: the changed entries, their subsets, the
\* global watch evaluation and the directly changed specs.
ReadChanges ==
  /\ pc = "start"
  /\ ValidationError(options) = Null
  /\ \E r \in {GetChangedEntries(options.baseRef,
                                 options.includeWorkingTreeWithBase,
                                 repo.git)} :
       /\ ~r.threw
       /\ changed' = ChangesOf(r)
  /\ pc' = "changes"
  /\ UNCHANGED <<options, repo, graph, semantic, filterInput, filterOut,
                 result, thrown, traversal>>

\* getChangedEntries throws on a git diff that exits with a non-zero
\* status: the error leaves analyzeImpactedSpecs.
ReadChangesThrows ==
  /\ pc = "start"
  /\ ValidationError(options) = Null
  /\ \E r \in {GetChangedEntries(options.baseRef,
                                 options.includeWorkingTreeWithBase,
                                 repo.git)} :
       /\ r.threw
       /\ thrown' = r.error
  /\ pc' = "threw"
  /\ UNCHANGED <<options, repo, changed, graph, semantic, filterInput,
                 filterOut, result, traversal>>

\* validateProfile or the test of repoRoot throws: the error leaves
\* analyzeImpactedSpecs before Stage 0.
ConfigurationError ==
  /\ pc = "start"
  /\ ValidationError(options) # Null
  /\ thrown' = ValidationError(options)
  /\ pc' = "threw"
  /\ UNCHANGED <<options, repo, changed, graph, semantic, filterInput,
                 filterOut, result, traversal>>

\* The fields every result of analyzeImpactedSpecs takes from Stage 0.
ResultBase ==
  [changedPomEntries |-> changed.changedPomEntries,
   directChangedSpecFiles |-> changed.directChangedSpecFiles,
   statusSummary |-> GetStatusSummary(changed.changedPomEntries),
   changedEntriesBySource |->
     changed.changedEntriesResult.changedEntriesBySource,
   globalWatchMatches |-> changed.globalWatch.matchedPaths,
   globalWatchResolvedFiles |-> changed.globalWatch.resolvedFiles]

EmptySemanticStats ==
  [changedPomEntriesByStatus |-> [s \in CanonicalStatuses |-> 0],
   semanticChangedMethodsCount |-> 0, topLevelRuntimeChangedFiles |-> 0]

\* A variant of the early result that counts the changed page-object
\* entries by status in the semantic statistics.
EarlyResultCountingEntries(selectedSpecs, reason, forced) ==
  [base |-> ResultBase,
   selectedSpecs |-> selectedSpecs,
   impactedClasses |-> {}, impactedMethodsByClass |-> EmptyMap,
   fixtureKeys |-> {}, stageASelectedCount |-> Len(selectedSpecs),
   semanticStats |->
     [EmptySemanticStats EXCEPT
        !.changedPomEntriesByStatus =
           GetStatusSummary(changed.changedPomEntries)],
   propagationStats |-> [impactedMethodsTotal |-> 0],
   droppedByMethodFilter |-> 0, retainedWithoutMethodFilter |-> 0,
   selectionReasons |-> [p \in SeqToSet(selectedSpecs) |-> reason],
   hasAnythingToRun |-> Len(selectedSpecs) > 0,
   warnings |-> changed.changedEntriesResult.warnings,
   coverageStats |->
     [uncertainCallSites |-> 0,
      statusFallbackHits |-> changed.changedEntriesResult.statusFallbackHits],
   forcedAllSpecs |-> forced,
   forcedAllSpecsReason |-> IF forced THEN "global-watch-force-all" ELSE Null]

\* The result of the two early returns: no semantic stage has run.
EarlyResult(selectedSpecs, reason, forced) ==
  [base |-> ResultBase,
   selectedSpecs |-> selectedSpecs,
   impactedClasses |-> {}, impactedMethodsByClass |-> EmptyMap,
   fixtureKeys |-> {}, stageASelectedCount |-> Len(selectedSpecs),
   semanticStats |-> EmptySemanticStats,
   propagationStats |-> [impactedMethodsTotal |-> 0],
   droppedByMethodFilter |-> 0, retainedWithoutMethodFilter |-> 0,
   selectionReasons |-> [p \in SeqToSet(selectedSpecs) |-> reason],
   hasAnythingToRun |-> Len(selectedSpecs) > 0,
   warnings |-> changed.changedEntriesResult.warnings,
   coverageStats |->
     [uncertainCallSites |-> 0,
      statusFallbackHits |-> changed.changedEntriesResult.statusFallbackHits],
   forcedAllSpecs |-> forced,
   forcedAllSpecsReason |-> IF forced THEN "global-watch-force-all" ELSE Null]

\* globalWatchMode !== 'disabled' && globalWatch.matchedPaths.length > 0.
ForcesAll ==
  options.globalWatchMode # "disabled"
  /\ Len(changed.globalWatch.matchedPaths) > 0

\* changedPomEntries.length === 0 && directChangedSpecFiles.length === 0.
NothingChanged ==
  Len(changed.changedPomEntries) = 0
  /\ Len(changed.directChangedSpecFiles) = 0

\* The force-all return.
ForceAll ==
  /\ pc = "changes"
  /\ ForcesAll
  /\ result' = [b \in SelectionBiases |->
                  EarlyResult(AllSpecsUnderTestsRoot(repo.files),
                              "global-watch-force-all", TRUE)]
  /\ pc' = "done"
  /\ UNCHANGED <<options, repo, changed, graph, semantic, filterInput,
                 filterOut, thrown, traversal>>

\* The fast exit.
FastExit ==
  /\ pc = "changes"
  /\ ~ForcesAll
  /\ NothingChanged
  /\ result' = [b \in SelectionBiases |-> EarlyResult(<<>>, Null, FALSE)]
  /\ pc' = "done"
  /\ UNCHANGED <<options, repo, changed, graph, semantic, filterInput,
                 filterOut, thrown, traversal>>

\* pageFiles: the files under the analysis roots with an effective extension.
PageFiles(files) ==
  FilterSeq(ListFilesRecursive(files, AnalysisRootPaths),
            {p \in RelPaths : IsValidExtension(p)})

RECURSIVE ContentsOf(_, _)
\* The contents fs.readFileSync returns for a list of readable files.
ContentsOf(files, paths) ==
  IF paths = <<>> THEN <<>>
  ELSE <<files[Head(paths)]>> \o ContentsOf(files, Tail(paths))

\* fs.readFileSync throws on one of the listed files.
SomeUnreadable(files, paths) ==
  \E i \in 1..Len(paths) : ~Readable(files, paths[i])

\* buildInheritanceGraph over the page files, then the import-graph
\* selection when a page-object entry changed.
InheritanceScan ==
  /\ pc = "changes"
  /\ ~ForcesAll
  /\ ~NothingChanged
  /\ ~SomeUnreadable(repo.files, PageFiles(repo.files))
  /\ LET pageFiles == PageFiles(repo.files)
         g == BuildInheritanceGraph(ContentsOf(repo.files, pageFiles))
     IN graph' =
          [pageFiles |-> pageFiles,
           parentsByChild |-> g.parentsByChild,
           childrenByParent |-> g.childrenByParent,
           importMatchedSpecs |->
             IF Len(changed.changedPomEntries) > 0
               THEN SelectSpecsByChangedImports(repo.files,
                                                changed.changedPomEntries)
               ELSE <<>>]
  /\ pc' = "graph"
  /\ UNCHANGED <<options, repo, changed, semantic, filterInput, filterOut,
                 result, thrown, traversal>>

\* buildInheritanceGraph reads a page file that cannot be read: the error
\* of fs.readFileSync leaves analyzeImpactedSpecs.
InheritanceScanThrows ==
  /\ pc = "changes"
  /\ ~ForcesAll
  /\ ~NothingChanged
  /\ SomeUnreadable(repo.files, PageFiles(repo.files))
  /\ pc' = "threw"
  /\ thrown' = "EACCES: permission denied"
  /\ UNCHANGED <<options, repo, changed, graph, semantic, filterInput,
                 filterOut, result, traversal>>

\* The outcome of the semantic stage when no page-object entry changed or
\* no change is semantic.  threw says that a read of the fixture
\* declaration file or of a spec file threw.
NoSemanticOutcome ==
  [threw |-> FALSE, impactedClasses |-> {},
   impactedMethodsByClass |-> EmptyMap, fixtureKeys |-> {},
   fixtureKeyToClass |-> EmptyMap, selectedSpecs |-> <<>>,
   semanticStats |-> EmptySemanticStats,
   propagationStats |-> [impactedMethodsTotal |-> 0],
   propagationWarnings |-> <<>>]

\* Stage A: selectSpecFiles over the fixture keys of the impacted classes.
SemanticSelected(found, fixtureMappings, fixtureKeys) ==
  IF fixtureKeys = {}
    THEN [found EXCEPT !.fixtureKeyToClass = fixtureMappings.fixtureKeyToClass]
  ELSE IF SomeUnreadable(repo.files, StageASpecFiles(repo.files))
    THEN [found EXCEPT !.threw = TRUE]
  ELSE [found EXCEPT
          !.fixtureKeyToClass = fixtureMappings.fixtureKeyToClass,
          !.fixtureKeys = fixtureKeys,
          !.selectedSpecs = SelectSpecFiles(repo.files, fixtureKeys)]

\* classesForFixtureSelection and the fixture keys of those classes.
SemanticMapped(found, fixtureMappings) ==
  SemanticSelected(found, fixtureMappings,
    GetFixtureKeysForClasses(
      IF DOMAIN found.impactedMethodsByClass # {}
        THEN DOMAIN found.impactedMethodsByClass ELSE found.impactedClasses,
      fixtureMappings.classToFixtureKeys))

\* parseFixtureMappings on the fixture declaration file.
SemanticPropagated(stats, impactedClasses, impactedMethodsResult) ==
  IF repo.files[TypesFile] = Unreadable
    THEN [NoSemanticOutcome EXCEPT !.threw = TRUE]
    ELSE SemanticMapped(
           [NoSemanticOutcome EXCEPT
              !.impactedClasses = impactedClasses,
              !.impactedMethodsByClass =
                 impactedMethodsResult.impactedMethodsByClass,
              !.semanticStats = stats,
              !.propagationStats = impactedMethodsResult.stats,
              !.propagationWarnings = impactedMethodsResult.warnings],
           ParseFixtureMappings(repo.files))

\* buildImpactedMethodsByClass over the impacted classes.
SemanticClasses(changedMethodsResult, impactedClasses) ==
  SemanticPropagated(
    changedMethodsResult.stats, impactedClasses,
    BuildImpactedMethodsByClass(impactedClasses,
                                changedMethodsResult.changedMethodsByClass,
                                graph.parentsByChild,
                                ContentsOf(repo.files, graph.pageFiles)))

\* hasSemanticPomImpact and collectImpactedClasses.
SemanticSeeded(changedMethodsResult) ==
  IF ~(changedMethodsResult.stats.semanticChangedMethodsCount > 0
       \/ changedMethodsResult.stats.topLevelRuntimeChangedFiles > 0)
    THEN [NoSemanticOutcome EXCEPT
            !.semanticStats = changedMethodsResult.stats]
    ELSE SemanticClasses(
           changedMethodsResult,
           CollectImpactedClasses(repo, changed.changedPomEntries,
                                  graph.childrenByParent))

\* Stage 1 and Stage A of analyzeImpactedSpecs.
SemanticOutcome ==
  IF Len(changed.changedPomEntries) = 0 THEN NoSemanticOutcome
  ELSE SemanticSeeded(
         CollectChangedMethodsByClass(repo, changed.changedPomEntries))

\* The semantic seed, the propagation, the fixture map and Stage A.
SemanticStage ==
  /\ pc = "graph"
  /\ \E outcome \in {SemanticOutcome} :
       /\ ~outcome.threw
       /\ semantic' = outcome
  /\ pc' = "selected"
  /\ UNCHANGED <<options, repo, changed, graph, filterInput, filterOut,
                 result, thrown, traversal>>

\* parseFixtureClassMap or selectSpecFiles reads a file that cannot be
\* read: the error of fs.readFileSync leaves analyzeImpactedSpecs.
SemanticStageThrows ==
  /\ pc = "graph"
  /\ SemanticOutcome.threw
  /\ pc' = "threw"
  /\ thrown' = "EACCES: permission denied"
  /\ UNCHANGED <<options, repo, changed, graph, semantic, filterInput,
                 filterOut, result, traversal>>

\* The call of filterSpecsByImpactedMethods on the arguments input, under
\* each selection bias.
FilterUnderEachBias(input) ==
  [b \in SelectionBiases |->
     FilterSpecsByImpactedMethods(input.selectedSpecs,
                                  input.directChangedSpecsAbs,
                                  input.alwaysIncludeSpecsAbs,
                                  input.fixtureKeyToClass, input.fixtureKeys,
                                  input.impactedMethodsByClass, b,
                                  input.files)]

\* The union of the Stage A selection, the directly changed specs and the
\* import-matched specs, and the arguments of Stage B.
StageBInput ==
  LET directChangedSpecsAbs == MapJoin(changed.directChangedSpecFiles)
  IN [selectedSpecs |->
        SortPaths(ArrayFromSet(semantic.selectedSpecs
                               \o directChangedSpecsAbs
                               \o graph.importMatchedSpecs)),
      directChangedSpecsAbs |-> directChangedSpecsAbs,
      alwaysIncludeSpecsAbs |-> graph.importMatchedSpecs,
      fixtureKeyToClass |-> semantic.fixtureKeyToClass,
      fixtureKeys |-> semantic.fixtureKeys,
      impactedMethodsByClass |-> semantic.impactedMethodsByClass,
      files |-> repo.files]

\* The result analyzeImpactedSpecs returns after Stage B.
FinalResult(input, methodFilterResult) ==
  [base |-> ResultBase,
   selectedSpecs |-> methodFilterResult.filteredSpecs,
   impactedClasses |-> semantic.impactedClasses,
   impactedMethodsByClass |-> semantic.impactedMethodsByClass,
   fixtureKeys |-> semantic.fixtureKeys,
   stageASelectedCount |-> Len(input.selectedSpecs),
   semanticStats |-> semantic.semanticStats,
   propagationStats |-> semantic.propagationStats,
   droppedByMethodFilter |-> methodFilterResult.droppedByMethodFilter,
   retainedWithoutMethodFilter |->
     methodFilterResult.retainedWithoutMethodFilter,
   selectionReasons |-> methodFilterResult.selectionReasons,
   hasAnythingToRun |-> Len(methodFilterResult.filteredSpecs) > 0,
   warnings |-> changed.changedEntriesResult.warnings
                \o semantic.propagationWarnings
                \o methodFilterResult.warnings,
   coverageStats |->
     [uncertainCallSites |-> methodFilterResult.uncertainCallSites,
      statusFallbackHits |-> changed.changedEntriesResult.statusFallbackHits],
   forcedAllSpecs |-> FALSE,
   forcedAllSpecsReason |-> Null]

\* Stage B and the final return.
MethodFilter ==
  /\ pc = "selected"
  /\ \E input \in {StageBInput} :
       \E out \in {FilterUnderEachBias(input)} :
         /\ filterInput' = input
         /\ filterOut' = out
         /\ result' = [b \in SelectionBiases |-> FinalResult(input, out[b])]
  /\ pc' = "done"
  /\ UNCHANGED <<options, repo, changed, graph, semantic, thrown, traversal>>

Next ==
  \/ ConfigurationError
  \/ ReadChanges
  \/ ReadChangesThrows
  \/ ForceAll
  \/ FastExit
  \/ InheritanceScan
  \/ InheritanceScanThrows
  \/ SemanticStage
  \/ SemanticStageThrows
  \/ MethodFilter

Spec == Init /\ [][Next]_vars

\* ------------------------------- filterSpecsByImpactedMethods on its own
\* One call of filterSpecsByImpactedMethods on arguments of any shape its
\* callers and its tests may pass: the first spec file is a candidate, a
\* directly changed spec or an import-matched spec, and it is unreadable or
\* has up to MaxCalls call sites on chains of up to MaxChainDepth accesses.

\* The call sites and alias statements of the first spec file:
\*   page.leaf()  page.goto()  page.a.leaf() ...  page["leaf"]()
\*   page[name]()  const fn = page.leaf  fn()
FilterNodes ==
  {Call("prop", "page", m, d) : m \in {"leaf", "goto"}, d \in 0..MaxChainDepth}
  \cup {Call("elemLit", "page", "leaf", d) : d \in {0, MaxChainDepth}}
  \cup {Call("elemDyn", "page", Null, 0), AliasDecl("fn", "page", "leaf"),
        AliasCall("fn")}

\* The callback parameters: none, ({ page }) and ({ page: p }).
FilterBindings ==
  {<<>>, <<Binding("page", "page")>>, <<Binding("page", "p")>>}

FilterSpecContents ==
  {SpecContent({}, [bindings |-> b, nodes |-> n]) :
     b \in FilterBindings,
     n \in UNION {[1..k -> FilterNodes] : k \in 0..MaxCalls}}

\* The impacted methods: none, a method of the class of the key page, a
\* method of another class.
FilterImpacted ==
  {EmptyMap, MapSet(EmptyMap, "PageA", {"leaf"}),
   MapSet(EmptyMap, "Widget", {"click"})}

\* The arguments of the call: role says how the first spec file came to be
\* selected, withB whether the second spec file is a candidate too.
FilterInput(content, role, withB, impacted, fixtureKeys) ==
  [selectedSpecs |->
     <<PathJoin(RepoRoot, SpecA)>>
     \o (IF withB THEN <<PathJoin(RepoRoot, SpecB)>> ELSE <<>>),
   directChangedSpecsAbs |->
     IF role = "direct" THEN <<PathJoin(RepoRoot, SpecA)>> ELSE <<>>,
   alwaysIncludeSpecsAbs |->
     IF role = "import" THEN <<PathJoin(RepoRoot, SpecA)>> ELSE <<>>,
   fixtureKeyToClass |->
     MapSet(MapSet(EmptyMap, "page", "PageA"), "widget", "Widget"),
   fixtureKeys |-> fixtureKeys,
   impactedMethodsByClass |-> impacted,
   files |-> [p \in RelPaths |->
                IF p = SpecA THEN content
                ELSE IF p = SpecB THEN SpecBContent ELSE Absent]]

InitFilter ==
  /\ \E content \in FilterSpecContents \cup {Unreadable},
        role \in {"candidate", "direct", "import"}, withB \in BOOLEAN,
        impacted \in FilterImpacted,
        fixtureKeys \in {{}, {"page"}, {"page", "widget"}} :
       /\ role # "candidate" =>
            content \in {Unreadable, SpecContent({}, SpecBodies.dynamic)}
       /\ filterInput = FilterInput(content, role, withB, impacted,
                                    fixtureKeys)
  /\ pc = "filter-start"
  /\ options = NotYet
  /\ repo = NotYet
  /\ changed = NotYet
  /\ graph = NotYet
  /\ semantic = NotYet
  /\ filterOut = NotYet
  /\ result = NotYet
  /\ thrown = Null
  /\ traversal = NotYet

\* The call, under each selection bias.
FilterCall ==
  /\ pc = "filter-start"
  /\ filterOut' = FilterUnderEachBias(filterInput)
  /\ pc' = "filter-done"
  /\ UNCHANGED <<options, repo, changed, graph, semantic, filterInput, result,
                 thrown, traversal>>

NextFilter == FilterCall

SpecFilter == InitFilter /\ [][NextFilter]_vars

\* ------------------------------------------------ getChangedEntries on its own
\* One call of getChangedEntries on what the three git commands print, with
\* or without a base ref and with or without the working tree: the
\* comparison with the base prints up to MaxLines lines, the comparison of
\* the working tree up to one line.

\* The lines of git diff --name-status -M: the four canonical statuses, a
\* rename and a copy with their scores, a type change, a status git does
\* not have, a lower-case status, and three lines that lack a path or the
\* status.
DiffLines ==
  {<<"A", PomFile>>, <<"M", PomFile>>, <<"D", PomFile>>,
   <<"R100", OldPomFile, PomFile>>, <<"C75", OldPomFile, PomFile>>,
   <<"T", PomFile>>, <<"X", PomFile>>, <<"m", HelperFile>>,
   <<"M">>, <<PomFile>>, <<"R100", OldPomFile>>}

DiffOutputs(maxLines) == UNION {[1..k -> DiffLines] : k \in 0..maxLines}

\* The listings of git ls-files --others: nothing, or a page-object file
\* and a spec file.  An untracked file is not in the index, so that the
\* comparison of the working tree with HEAD can only name it as deleted.
UntrackedListings == {<<>>, <<PomFile, SpecB>>}

InitNormalizer ==
  /\ \E baseRef \in {Null, "main"}, includeWorkingTreeWithBase \in BOOLEAN,
        baseHead \in DiffOutputs(MaxLines), workingTree \in DiffOutputs(1),
        untracked \in UntrackedListings,
        failing \in GitCommands \cup {"none"} :
       /\ baseRef = Null => baseHead = <<>>
       /\ untracked # <<>> =>
            workingTree \in {<<>>, <<<<"D", PomFile>>>>,
                             <<<<"m", HelperFile>>>>, <<<<"M">>>>}
       /\ failing # "none" =>
            /\ Len(baseHead) <= 1 /\ workingTree = <<>> /\ untracked = <<>>
       /\ options =
            [repoRoot |-> RepoRoot,
             profile |-> [given |-> TRUE, testsRootRelative |-> "tests",
                          changedSpecPrefix |-> "tests/",
                          isRelevantPomPath |-> "pages-and-utils"],
             baseRef |-> baseRef,
             includeWorkingTreeWithBase |-> includeWorkingTreeWithBase,
             includeUntrackedSpecs |-> TRUE,
             globalWatchMode |-> "disabled"]
       /\ repo =
            FailingGit(
              [git |-> [baseHead |-> [status |-> 0, stdout |-> baseHead],
                        workingTree |-> [status |-> 0, stdout |-> workingTree],
                        untracked |-> [status |-> 0, stdout |-> untracked]]],
              failing)
  /\ pc = "normalize-start"
  /\ changed = NotYet
  /\ graph = NotYet
  /\ semantic = NotYet
  /\ filterInput = NotYet
  /\ filterOut = NotYet
  /\ result = NotYet
  /\ thrown = Null
  /\ traversal = NotYet

\* The call returns.
NormalizerCall ==
  /\ pc = "normalize-start"
  /\ \E r \in {GetChangedEntries(options.baseRef,
                                 options.includeWorkingTreeWithBase,
                                 repo.git)} :
       /\ ~r.threw
       /\ changed' = [changedEntriesResult |-> r]
  /\ pc' = "normalize-done"
  /\ UNCHANGED <<options, repo, graph, semantic, filterInput, filterOut,
                 result, thrown, traversal>>

\* The call throws the error of runDiffAndParse.
NormalizerThrows ==
  /\ pc = "normalize-start"
  /\ \E r \in {GetChangedEntries(options.baseRef,
                                 options.includeWorkingTreeWithBase,
                                 repo.git)} :
       /\ r.threw
       /\ thrown' = r.error
  /\ pc' = "normalize-threw"
  /\ UNCHANGED <<options, repo, changed, graph, semantic, filterInput,
                 filterOut, result, traversal>>

NextNormalizer == NormalizerCall \/ NormalizerThrows

SpecNormalizer == InitNormalizer /\ [][NextNormalizer]_vars

\* ------------------------------------- collectChangedMethodsByClass on its own
\* One call of collectChangedMethodsByClass on a change set of the
\* page-object file and, with it or not, of the helper file.  The head
\* revision of the page-object file has up to MaxStatements top-level
\* statements besides its classes.

\* Top-level statements: import './a', import type ..., export ...,
\* export type ..., an interface, a type alias and an expression statement.
StatementPool ==
  {Statement("import", FALSE, 1), Statement("import", TRUE, 2),
   Statement("import", TRUE, 3), Statement("export", FALSE, 4),
   Statement("export", TRUE, 5), Statement("interface", FALSE, 6),
   Statement("type-alias", FALSE, 7), Statement("other", FALSE, 8)}

StatementLists(maxStatements) ==
  UNION {[1..k -> StatementPool] : k \in 0..maxStatements}

\* The statements of the base revision.
BaseStatementLists ==
  {<<Statement("import", FALSE, 1), Statement("import", TRUE, 2)>>,
   <<Statement("interface", FALSE, 6), Statement("other", FALSE, 8)>>,
   <<Statement("export", TRUE, 5), Statement("type-alias", FALSE, 7)>>}

Accessor(type, name, fp) ==
  [type |-> type, name |-> name, fp |-> fp, hasBody |-> TRUE,
   calls |-> <<>>, composes |-> <<>>]

\* class PageA { open() { this.leaf() }  leaf() {} } and, after it or not,
\* class PageB { constructor() {}  get value() {}  set value(v) {}  label = 1 }
PageClasses(leafFp, withB) ==
  <<[name |-> "PageA", parent |-> Null,
     members |-> <<Method("open", 1, <<ThisCall("leaf")>>),
                   Method("leaf", leafFp, <<>>)>>]>>
  \o (IF withB
        THEN <<[name |-> "PageB", parent |-> Null,
                members |-> <<Accessor("ctor", "constructor", 1),
                              Accessor("get", "value", 1),
                              Accessor("set", "value", 1),
                              Field("label", 1)>>]>>
        ELSE <<>>)

PageClassLists ==
  {PageClasses(1, FALSE), PageClasses(2, FALSE), PageClasses(1, TRUE)}

\* The revisions of the helper file: the base revision, one with a changed
\* method and one with a changed import.
HelperHeads ==
  [same |-> HelperBase, member |-> HelperEdited,
   runtime |-> [HelperBase EXCEPT
                  !.bytes = 9,
                  !.statements = <<Statement("import", FALSE, 2)>>]]

\* A revision of the page-object file; bytes tells two revisions apart
\* whenever their statements or classes differ.
PageFile(statements, classes) ==
  [imports |-> {}, bytes |-> <<statements, classes>>,
   statements |-> statements, classes |-> classes]

InitSemantic ==
  /\ \E status \in {"A", "M", "D", "R"},
        baseStatements \in BaseStatementLists,
        headStatements \in StatementLists(MaxStatements),
        baseClasses \in {PageClasses(1, TRUE)},
        headClasses \in PageClassLists,
        helper \in {"none", "same", "member", "runtime"} :
       /\ status \in {"A", "D"} => helper = "none"
       /\ repo =
            [base |->
               [p \in (IF status = "A" THEN {}
                       ELSE IF status = "R" THEN {OldPomFile}
                       ELSE {PomFile}) \cup {HelperFile} |->
                  IF p = HelperFile THEN HelperBase
                  ELSE PageFile(baseStatements, baseClasses)],
             files |->
               [p \in RelPaths |->
                  IF p = PomFile /\ status # "D"
                    THEN PageFile(headStatements, headClasses)
                  ELSE IF p = HelperFile
                    THEN HelperHeads[IF helper = "none" THEN "same"
                                     ELSE helper]
                  ELSE Absent]]
       /\ changed =
            [changedPomEntries |->
               <<IF status = "R"
                   THEN ParsedRename("R", OldPomFile, PomFile)
                   ELSE ParsedEntry(status, PomFile)>>
               \o (IF helper = "none" THEN <<>>
                   ELSE <<ParsedEntry("M", HelperFile)>>)]
  /\ pc = "semantic-start"
  /\ options = NotYet
  /\ graph = NotYet
  /\ semantic = NotYet
  /\ filterInput = NotYet
  /\ filterOut = NotYet
  /\ result = NotYet
  /\ thrown = Null
  /\ traversal = NotYet

\* The call of collectChangedMethodsByClass.
SemanticCall ==
  /\ pc = "semantic-start"
  /\ semantic' =
       CollectChangedMethodsByClass(repo, changed.changedPomEntries)
  /\ pc' = "semantic-done"
  /\ UNCHANGED <<options, repo, changed, graph, filterInput, filterOut,
                 result, thrown, traversal>>

NextSemantic == SemanticCall

SpecSemantic == InitSemantic /\ [][NextSemantic]_vars

\* ------------------------------------------- buildInheritanceGraph on its own
\* One call of buildInheritanceGraph on two page files: the first declares
\* up to MaxDeclarations classes, the second at most one.  Class names are
\* not unique across files: two modules may each declare a class A.

\* class A {}, class A extends B {}, ...: the name and the name after
\* extends, Null when the declaration has no extends clause.
ClassDeclarations ==
  {[name |-> n, parent |-> q, members |-> <<>>] :
     n \in {"A", "B"}, q \in {Null, "A", "B", "C"}}

DeclarationLists(maxDeclarations) ==
  UNION {[1..k -> ClassDeclarations] : k \in 0..maxDeclarations}

InitInheritance ==
  /\ \E first \in DeclarationLists(MaxDeclarations),
        second \in DeclarationLists(1) :
       repo = [contents |-> <<[classes |-> first], [classes |-> second]>>]
  /\ pc = "inheritance-start"
  /\ options = NotYet
  /\ changed = NotYet
  /\ graph = NotYet
  /\ semantic = NotYet
  /\ filterInput = NotYet
  /\ filterOut = NotYet
  /\ result = NotYet
  /\ thrown = Null
  /\ traversal = NotYet

\* The call of buildInheritanceGraph.
InheritanceCall ==
  /\ pc = "inheritance-start"
  /\ graph' = BuildInheritanceGraph(repo.contents)
  /\ pc' = "inheritance-done"
  /\ UNCHANGED <<options, repo, changed, semantic, filterInput, filterOut,
                 result, thrown, traversal>>

NextInheritance == InheritanceCall

SpecInheritance == InitInheritance /\ [][NextInheritance]_vars

\* ------------------------------------- buildImpactedMethodsByClass on its own
\* One call of buildImpactedMethodsByClass on two page files, the loop of
\* its traversal taken one turn at a time.  The first file declares the
\* class Widget, whose members changed; the second declares the classes
\* that extend it, hold it as a field, or extend or hold those.

Getter(name, calls) ==
  [type |-> "get", name |-> name, fp |-> 1, hasBody |-> TRUE,
   calls |-> calls, composes |-> <<>>]

Setter(name, calls) ==
  [type |-> "set", name |-> name, fp |-> 1, hasBody |-> TRUE,
   calls |-> calls, composes |-> <<>>]

\* widget: Widget;  a field whose declared type is a class.
ComposedField(name, className) ==
  [type |-> "field", name |-> name, fp |-> 1, hasBody |-> FALSE,
   calls |-> <<>>, composes |-> <<<<name, className>>>>]

\* this.widget.leaf()
FieldCall(field, name) == [via |-> "field", name |-> name, field |-> field]

\* this[key]()
DynamicCall == [via |-> "thisDyn", name |-> Null, field |-> Null]

\* The member lists of class Widget:
\*   plain    leaf() {}  open() { this.leaf() }
\*   getset   leaf() {}  get value() { this.leaf() }  set value(v) {}
\*   setget   leaf() {}  set value(v) {}  get value() { this.leaf() }
\*   self     leaf() {}  open() { this.open(); this.leaf() }
\*   mutual   leaf() {}  open() { this.back() }
\*            back() { this.open(); this["leaf"]() }
\*   dynamic  leaf() {}  open() { this[key]() }  other() {}
WidgetMembers ==
  [plain |-> <<Method("leaf", 1, <<>>),
               Method("open", 1, <<ThisCall("leaf")>>)>>,
   getset |-> <<Method("leaf", 1, <<>>),
                Getter("value", <<ThisCall("leaf")>>),
                Setter("value", <<>>)>>,
   setget |-> <<Method("leaf", 1, <<>>),
                Setter("value", <<>>),
                Getter("value", <<ThisCall("leaf")>>)>>,
   self |-> <<Method("leaf", 1, <<>>),
              Method("open", 1, <<ThisCall("open"), ThisCall("leaf")>>)>>,
   mutual |-> <<Method("leaf", 1, <<>>),
                Method("open", 1, <<ThisCall("back")>>),
                Method("back", 1, <<ThisCall("open"), ThisCall("leaf")>>)>>,
   dynamic |-> <<Method("leaf", 1, <<>>),
                 Method("open", 1, <<DynamicCall>>),
                 Method("other", 1, <<>>)>>]

\* The classes of the second file:
\*   alone  none
\*   child  class SubWidget extends Widget { run() { super.leaf() } }
\*   owner  class Panel { widget: Widget; show() { this.widget.leaf() } }
\*   chain  class Panel as above,
\*          class SubPanel extends Panel { more() { this.show() } },
\*          class Screen { panel: SubPanel; view() { this.panel.show() } }
OtherClasses ==
  [alone |-> <<>>,
   child |-> <<[name |-> "SubWidget", parent |-> "Widget",
                members |-> <<Method("run", 1, <<SuperCall("leaf")>>)>>]>>,
   owner |-> <<[name |-> "Panel", parent |-> Null,
                members |-> <<ComposedField("widget", "Widget"),
                              Method("show", 1,
                                     <<FieldCall("widget", "leaf")>>)>>]>>,
   chain |-> <<[name |-> "Panel", parent |-> Null,
                members |-> <<ComposedField("widget", "Widget"),
                              Method("show", 1,
                                     <<FieldCall("widget", "leaf")>>)>>],
               [name |-> "SubPanel", parent |-> "Panel",
                members |-> <<Method("more", 1, <<ThisCall("show")>>)>>],
               [name |-> "Screen", parent |-> Null,
                members |-> <<ComposedField("panel", "SubPanel"),
                              Method("view", 1,
                                     <<FieldCall("panel", "show")>>)>>]>>]

\* The names changedMethodsByClass can hold for Widget; gone is a member
\* the head revision no longer declares.
ChangedNames == {"leaf", "open", "value", "gone"}

InitPropagation ==
  /\ \E shape \in DOMAIN WidgetMembers, others \in DOMAIN OtherClasses :
       repo = [contents |->
                 <<[classes |-> <<[name |-> "Widget", parent |-> Null,
                                   members |-> WidgetMembers[shape]]>>],
                   [classes |-> OtherClasses[others]]>>]
  /\ graph = BuildInheritanceGraph(repo.contents)
  /\ \E names \in {n \in SUBSET ChangedNames :
                      Cardinality(n) <= MaxChangedMethods},
        impactedClasses \in
          {{}, DescendantsLoop(<<"Widget">>, {"Widget"},
                               graph.childrenByParent)} :
       semantic =
         [impactedClasses |-> impactedClasses,
          changedMethodsByClass |->
            IF names = {} THEN EmptyMap ELSE [c \in {"Widget"} |-> names]]
  /\ pc = "propagation-start"
  /\ options = NotYet
  /\ changed = NotYet
  /\ filterInput = NotYet
  /\ filterOut = NotYet
  /\ result = NotYet
  /\ thrown = Null
  /\ traversal = NotYet

\* The state of the traversal before the first turn of its loop: the
\* direct edges, their warnings, and the seed member keys marked and
\* queued.
SeedTraversal(direct, seedKeys) ==
  [edges |-> direct.edges, warnings |-> direct.warnings,
   queue |-> SetToSeq(seedKeys), visited |-> seedKeys, shifted |-> <<>>]

\* buildImpactedMethodsByClass up to its while loop: the class maps, the
\* direct edges and the seeds.
PropagationSeed ==
  /\ pc = "propagation-start"
  /\ \E classes \in {ClassesOfFiles(repo.contents)} :
       \E keys \in {CallableMemberKeys(classes)} :
         traversal' =
           SeedTraversal(
             DirectEdgesLoop(CallersOfClasses(classes, <<>>), classes, keys,
                             graph.parentsByChild,
                             [edges |-> {}, warnings |-> <<>>]),
             SeedKeys(semantic.changedMethodsByClass, keys,
                      graph.parentsByChild))
  /\ pc' = "propagation-bfs"
  /\ UNCHANGED <<options, repo, changed, graph, semantic, filterInput,
                 filterOut, result, thrown>>

\* One turn of `while (queue.length > 0)`.
PropagationShift ==
  /\ pc = "propagation-bfs"
  /\ traversal.queue # <<>>
  /\ traversal' =
       ShiftQueue(traversal,
                  UnvisitedCallers(CallersOf(traversal.edges,
                                             Head(traversal.queue)),
                                   traversal.visited))
  /\ UNCHANGED <<options, repo, pc, changed, graph, semantic, filterInput,
                 filterOut, result, thrown>>

\* The queue is empty: the projection on the classes and the return.
PropagationProject ==
  /\ pc = "propagation-bfs"
  /\ traversal.queue = <<>>
  /\ \E classes \in {ClassesOfFiles(repo.contents)} :
       result' =
         ProjectImpactedMethods(semantic.impactedClasses,
                                semantic.changedMethodsByClass,
                                graph.parentsByChild, classes,
                                CallableMemberKeys(classes),
                                traversal.warnings, traversal.visited)
  /\ pc' = "propagation-done"
  /\ UNCHANGED <<options, repo, changed, graph, semantic, filterInput,
                 filterOut, thrown, traversal>>

NextPropagation == PropagationSeed \/ PropagationShift \/ PropagationProject

SpecPropagation == InitPropagation /\ [][NextPropagation]_vars

\* The loop runs on one thread and nothing else is scheduled: a turn of
\* the loop that can be taken is taken.
SpecPropagationFair == SpecPropagation /\ WF_vars(PropagationShift)

\* ============================================================= properties

\* The absolute paths selected under the bias b, once the call has returned.
SelectedSet(b) == SeqToSet(result[b].selectedSpecs)

\* The existing spec files under the tests root.
SpecFilesUnderTestsRoot ==
  {PathJoin(RepoRoot, p) :
     p \in {q \in RelPaths : /\ UnderTestsRoot(q) /\ IsSpecPath(q)
                             /\ Exists(repo.files, q)}}

RECURSIVE ImportsReachableFrom(_, _, _)
\* The files reachable from the files of frontier along the resolved
\* import edges of the readable files.
ImportsReachableFrom(files, frontier, seen) ==
  IF frontier = {} THEN seen
  ELSE ImportsReachableFrom(
         files,
         UNION {IF Readable(files, f) THEN ResolveModuleSpecifiers(files, f)
                ELSE {} : f \in frontier} \ seen,
         seen \cup UNION {IF Readable(files, f)
                            THEN ResolveModuleSpecifiers(files, f)
                            ELSE {} : f \in frontier})

\* ------------------------------------------------------------------- C1

\* The classes the fixture declaration file maps the fixture key k to.
DeclaredClassesOfKey(k) ==
  {c \in DOMAIN ParseFixtureClassMap(repo.files).keys :
     k \in ParseFixtureClassMap(repo.files).keys[c]}

\* The readable spec files under the tests root that destructure, in a
\* callback parameter, a key the declaration file maps to a class C and
\* call var.m() directly on that variable, m being an impacted method of C
\* under the bias b.
DirectCallersOfImpacted(b) ==
  {p \in {q \in RelPaths : /\ UnderTestsRoot(q) /\ IsSpecPath(q)
                           /\ Readable(repo.files, q)} :
     \E i \in 1..Len(repo.files[p].bindings),
        j \in 1..Len(repo.files[p].nodes) :
       /\ repo.files[p].nodes[j].kind = "call"
       /\ repo.files[p].nodes[j].access = "prop"
       /\ repo.files[p].nodes[j].depth = 0
       /\ repo.files[p].nodes[j].root = repo.files[p].bindings[i].var
       /\ \E c \in DeclaredClassesOfKey(repo.files[p].bindings[i].key) :
            /\ c \in DOMAIN result[b].impactedMethodsByClass
            /\ repo.files[p].nodes[j].method
                 \in result[b].impactedMethodsByClass[c]}

\* C1: fail-safe selection.  In every returned result, a readable spec
\* under the tests root that destructures a fixture key the declaration
\* file maps to class C and calls an impacted method of C directly on that
\* variable is in selectedSpecs, under every selection bias.
FailSafeSelection ==
  (pc = "done" /\ Readable(repo.files, TypesFile)) =>
    \A b \in SelectionBiases :
      \A p \in DirectCallersOfImpacted(b) :
        PathJoin(RepoRoot, p) \in SelectedSet(b)

\* C1 where no fixture key is declared for two classes: the same statement
\* for the fixture declaration files in which every key has one class.
FailSafeSelectionUniqueKeys ==
  (/\ pc = "done" /\ Readable(repo.files, TypesFile)
   /\ \A k \in {"page", "widget"} : Cardinality(DeclaredClassesOfKey(k)) <= 1)
    => \A b \in SelectionBiases :
         \A p \in DirectCallersOfImpacted(b) :
           PathJoin(RepoRoot, p) \in SelectedSet(b)

\* A run that returns with a direct caller of an impacted method selected
\* by a precise match.
FailSafeSelectionWitness ==
  /\ pc = "done"
  /\ Readable(repo.files, TypesFile)
  /\ SpecA \in DirectCallersOfImpacted("fail-closed")
  /\ PathJoin(RepoRoot, SpecA) \in SelectedSet("fail-closed")
  /\ result["fail-closed"].selectionReasons[PathJoin(RepoRoot, SpecA)]
       = "matched-precise"

\* ------------------------------------------------------------------- C2

\* The directly changed specs: the spec paths under changedSpecPrefix with
\* status A, M or R and, when untracked specs are included, the untracked
\* specs.
DirectlyChangedSpecs ==
  {PathJoin(RepoRoot, e.effectivePath) :
     e \in {x \in SeqToSet(changed.changedEntriesResult.entries) :
              /\ HasChangedSpecPrefix(x.effectivePath)
              /\ IsSpecPath(x.effectivePath)
              /\ x.status \in {"A", "M", "R"}}}
  \cup (IF options.includeUntrackedSpecs
          THEN {PathJoin(RepoRoot, p) :
                  p \in {q \in SeqToSet(repo.git.untracked.stdout) :
                           HasChangedSpecPrefix(q) /\ IsSpecPath(q)}}
          ELSE {})

ChangedSourcePaths ==
  UNION {{x.effectivePath, x.oldPath, x.newPath} \ {Null} :
           x \in {e \in SeqToSet(changed.changedEntriesResult.entries) :
                    \E q \in {e.effectivePath, e.oldPath, e.newPath} \ {Null} :
                      IsRelevantPomPath(q)}}

\* The specs from which a changed source path is reachable through
\* resolved import edges.
SpecsImportingChangedSource ==
  {PathJoin(RepoRoot, p) :
     p \in {q \in RelPaths :
              /\ UnderTestsRoot(q) /\ IsSpecPath(q) /\ Exists(repo.files, q)
              /\ ImportsReachableFrom(repo.files, {q}, {})
                   \cap ChangedSourcePaths # {}}}

\* C3 as stated: every spec from which a changed source path is reachable
\* through import edges is selected with the reason matched-import-graph.
ImportersHaveImportReason ==
  pc = "done" =>
    \A b \in SelectionBiases :
      \A p \in SpecsImportingChangedSource :
        /\ p \in SelectedSet(b)
        /\ result[b].selectionReasons[p] = "matched-import-graph"

\* C3, amended: every such spec is selected under every bias; its reason
\* is global-watch-force-all when global watch forced all specs,
\* direct-changed-spec when the spec is itself directly changed, and
\* matched-import-graph otherwise.
ImportersSelected ==
  pc = "done" =>
    \A b \in SelectionBiases :
      \A p \in SpecsImportingChangedSource :
        /\ p \in SelectedSet(b)
        /\ result[b].selectionReasons[p] =
             IF result[b].forcedAllSpecs THEN "global-watch-force-all"
             ELSE IF p \in DirectlyChangedSpecs THEN "direct-changed-spec"
             ELSE "matched-import-graph"

\* A run in which the first spec imports the changed page-object file, is
\* not directly changed and is kept as import-matched although Stage B
\* finds no impacted call in it.
ImportersSelectedWitness ==
  /\ pc = "done"
  /\ ~result["fail-closed"].forcedAllSpecs
  /\ PathJoin(RepoRoot, SpecA) \in SpecsImportingChangedSource
  /\ PathJoin(RepoRoot, SpecA) \notin DirectlyChangedSpecs
  /\ DOMAIN result["fail-closed"].impactedMethodsByClass # {}
  /\ SpecA \notin DirectCallersOfImpacted("fail-closed")
  /\ result["fail-closed"].selectionReasons[PathJoin(RepoRoot, SpecA)]
       = "matched-import-graph"

\* ------------------------------------------------------------------- C4

\* The import closure of the existing files that match a watch pattern.
WatchedClosure ==
  ImportsReachableFrom(
    repo.files,
    {p \in RelPaths : Exists(repo.files, p) /\ MatchesWatchPattern(p)},
    {p \in RelPaths : Exists(repo.files, p) /\ MatchesWatchPattern(p)})

\* A changed entry's effective, old or new path matches a watch pattern or
\* lies in the import closure of the pattern-matched files.
WatchedPathChanged ==
  \E e \in SeqToSet(changed.changedEntriesResult.entries) :
    \E q \in {e.effectivePath, e.oldPath, e.newPath} \ {Null} :
      MatchesWatchPattern(q) \/ q \in WatchedClosure

\* C4: when global watch is not disabled and a changed path matches a
\* watch pattern or lies in the import closure of the matched files, the
\* result has forcedAllSpecs, selectedSpecs is exactly the set of the spec
\* files under the tests root and each has the reason
\* global-watch-force-all; when the mode is disabled, forcedAllSpecs is
\* false.
GlobalWatchForcesAll ==
  pc = "done" =>
    \A b \in SelectionBiases :
      /\ (options.globalWatchMode # "disabled" /\ WatchedPathChanged) =>
           /\ result[b].forcedAllSpecs
           /\ SelectedSet(b) = SpecFilesUnderTestsRoot
           /\ \A p \in SelectedSet(b) :
                result[b].selectionReasons[p] = "global-watch-force-all"
      /\ options.globalWatchMode = "disabled" => ~result[b].forcedAllSpecs

\* A run forced by a changed file that matches no watch pattern but is
\* imported by the watched configuration file, with two specs selected.
GlobalWatchForcesAllWitness ==
  /\ pc = "done"
  /\ options.globalWatchMode # "disabled"
  /\ WatchedPathChanged
  /\ \A e \in SeqToSet(changed.changedEntriesResult.entries) :
       ~MatchesWatchPattern(e.effectivePath)
  /\ result["fail-open"].forcedAllSpecs
  /\ Cardinality(SelectedSet("fail-open")) = 2

\* ------------------------------------------------------------------- C5

\* C5: monotonicity of bias.  On the same repository state and
\* configuration every spec selected under fail-closed is selected under
\* fail-open, and the fail-open selection is not the smaller one.
BiasMonotone ==
  pc = "done" =>
    /\ SelectedSet("fail-closed") \subseteq SelectedSet("fail-open")
    /\ Len(result["fail-closed"].selectedSpecs)
         <= Len(result["fail-open"].selectedSpecs)

\* A run in which fail-open selects a spec that fail-closed drops.
BiasMonotoneWitness ==
  /\ pc = "done"
  /\ SelectedSet("fail-open") \ SelectedSet("fail-closed") # {}
  /\ result["fail-closed"].droppedByMethodFilter > 0

\* ------------------------------------------------------------------- C6

\* The candidates of one call of filterSpecsByImpactedMethods that reach
\* the call-site matching and have no precise match: not directly changed,
\* not import-matched, readable, with a fixture binding, the impacted
\* methods being non-empty.
UnmatchedCandidates ==
  {p \in SeqToSet(filterInput.selectedSpecs) :
     /\ p \notin SeqToSet(filterInput.directChangedSpecsAbs)
     /\ p \notin SeqToSet(filterInput.alwaysIncludeSpecsAbs)
     /\ Readable(filterInput.files, PathRelative(RepoRoot, p))
     /\ DOMAIN filterInput.impactedMethodsByClass # {}
     /\ DOMAIN ExtractFixtureVariablesFromSpecAst(
                 filterInput.files[PathRelative(RepoRoot, p)],
                 filterInput.fixtureKeyToClass, filterInput.fixtureKeys) # {}
     /\ CollectImpactedMethodMatchesInSpec(
          filterInput.files[PathRelative(RepoRoot, p)],
          ExtractFixtureVariablesFromSpecAst(
            filterInput.files[PathRelative(RepoRoot, p)],
            filterInput.fixtureKeyToClass, filterInput.fixtureKeys),
          filterInput.impactedMethodsByClass,
          DEFAULT_SELECTION_BIAS).preciseMatches = {}}

\* The uncertain call sites of the candidate p.
UncertainSitesOf(p) ==
  CollectImpactedMethodMatchesInSpec(
    filterInput.files[PathRelative(RepoRoot, p)],
    ExtractFixtureVariablesFromSpecAst(
      filterInput.files[PathRelative(RepoRoot, p)],
      filterInput.fixtureKeyToClass, filterInput.fixtureKeys),
    filterInput.impactedMethodsByClass,
    DEFAULT_SELECTION_BIAS).uncertainCallSites

\* The candidate p is kept under the bias b with the reason
\* matched-uncertain-fail-open and one warning.
KeptAsUncertain(b, p) ==
  /\ p \in SeqToSet(filterOut[b].filteredSpecs)
  /\ p \in DOMAIN filterOut[b].selectionReasons
  /\ filterOut[b].selectionReasons[p] = "matched-uncertain-fail-open"
  /\ Cardinality({i \in 1..Len(filterOut[b].warnings) :
                    filterOut[b].warnings[i]
                      = <<"Uncertain callsite retained spec", p>>}) = 1

\* The candidate p is dropped under the bias b.
DroppedByFilter(b, p) ==
  /\ p \notin SeqToSet(filterOut[b].filteredSpecs)
  /\ p \notin DOMAIN filterOut[b].selectionReasons

\* C6: a spec that reaches the call-site matching and has no precise match
\* is kept with the reason matched-uncertain-fail-open and one warning if
\* and only if the bias is fail-open and it has an uncertain call site;
\* otherwise, and always under fail-closed and balanced, it is dropped.
UncertainKeptOnlyFailOpen ==
  pc = "filter-done" =>
    \A b \in SelectionBiases :
      \A p \in UnmatchedCandidates :
        /\ KeptAsUncertain(b, p) <=> (b = "fail-open" /\ UncertainSitesOf(p) > 0)
        /\ ~KeptAsUncertain(b, p) => DroppedByFilter(b, p)
        /\ b \in {"fail-closed", "balanced"} => DroppedByFilter(b, p)

\* A call in which a candidate with a too deep chain and no precise match
\* is kept under fail-open and dropped under fail-closed and balanced.
UncertainKeptOnlyFailOpenWitness ==
  /\ pc = "filter-done"
  /\ PathJoin(RepoRoot, SpecA) \in UnmatchedCandidates
  /\ UncertainSitesOf(PathJoin(RepoRoot, SpecA)) = MaxCalls
  /\ \E i \in 1..Len(filterInput.files[SpecA].nodes) :
       /\ filterInput.files[SpecA].nodes[i].kind = "call"
       /\ filterInput.files[SpecA].nodes[i].depth = MAX_PRECISE_CHAIN_DEPTH + 1
  /\ KeptAsUncertain("fail-open", PathJoin(RepoRoot, SpecA))
  /\ DroppedByFilter("fail-closed", PathJoin(RepoRoot, SpecA))
  /\ DroppedByFilter("balanced", PathJoin(RepoRoot, SpecA))

\* ------------------------------------------------------------------- C7

\* C7: in every result (force-all, fast exit, Stage B with or without
\* impacted methods) selectedSpecs is in ascending order, the order being
\* that of localeCompare, and holds no path twice.
SelectedSortedNoDup ==
  pc = "done" => \A b \in SelectionBiases : IsSortedNoDup(result[b].selectedSpecs)

\* A run through Stage B in which Stage A selects the second spec and the
\* first spec is directly changed: the union puts the second spec first.
SelectedSortedNoDupWitness ==
  /\ pc = "done"
  /\ filterInput # NotYet
  /\ semantic.selectedSpecs = <<PathJoin(RepoRoot, SpecB)>>
  /\ changed.directChangedSpecFiles = <<SpecA>>
  /\ result["fail-open"].selectedSpecs
       = <<PathJoin(RepoRoot, SpecA), PathJoin(RepoRoot, SpecB)>>

\* ------------------------------------------------------------------- C8

\* C8: in every result selectionReasons has an entry for each path of
\* selectedSpecs and for no other path, and each value is one of the eight
\* documented reason codes.
ReasonsCoverSelection ==
  pc = "done" =>
    \A b \in SelectionBiases :
      /\ DOMAIN result[b].selectionReasons = SelectedSet(b)
      /\ \A p \in SelectedSet(b) : result[b].selectionReasons[p] \in ReasonCodes

\* A run through Stage B that keeps one spec and drops another.
ReasonsCoverSelectionWitness ==
  /\ pc = "done"
  /\ result["fail-closed"].droppedByMethodFilter = 1
  /\ Cardinality(SelectedSet("fail-closed")) = 1
  /\ Len(filterInput.selectedSpecs) = 2

\* ------------------------------------------------------------------- C9

\* The candidates of one call of filterSpecsByImpactedMethods that are
\* neither directly changed nor import-matched and whose file cannot be
\* read.
UnreadableCandidates ==
  {p \in SeqToSet(filterInput.selectedSpecs) :
     /\ p \notin SeqToSet(filterInput.directChangedSpecsAbs)
     /\ p \notin SeqToSet(filterInput.alwaysIncludeSpecsAbs)
     /\ ~Readable(filterInput.files, PathRelative(RepoRoot, p))}

SomeFileUnreadable ==
  \E p \in RelPaths : repo.files[p] = Unreadable

ReturnsOnlyWhenUnreadableIsNotRead ==
  (pc = "done" /\ SomeFileUnreadable) =>
    \/ result["fail-open"].forcedAllSpecs
    \/ filterInput = NotYet
    \/ /\ repo.files[PomFile] # Unreadable
       /\ repo.files[TypesFile] = Unreadable =>
            DOMAIN result["fail-open"].impactedMethodsByClass = {}
       /\ repo.files[SpecA] = Unreadable =>
            result["fail-open"].fixtureKeys = {}

\* The message the call is documented to fail with on its configuration:
\* the profile is looked at first, field by field, then repoRoot.
ExpectedConfigurationMessage ==
  IF ~options.profile.given THEN "Missing required profile configuration"
  ELSE IF options.profile.testsRootRelative = Null
    THEN "Missing profile.testsRootRelative"
  ELSE IF options.profile.changedSpecPrefix = Null
    THEN "Missing profile.changedSpecPrefix"
  ELSE IF options.profile.isRelevantPomPath = Null
    THEN "Missing profile.isRelevantPomPath(filePath) function"
  ELSE "Missing required repoRoot"

IncompleteConfiguration ==
  \/ ~options.profile.given
  \/ options.profile.testsRootRelative = Null
  \/ options.profile.changedSpecPrefix = Null
  \/ options.profile.isRelevantPomPath = Null
  \/ options.repoRoot = Null

\* C11: a call without a profile, without one of the required profile
\* fields or without repoRoot never enumerates changes, never runs a stage
\* and never returns a result; it fails with the message of the first
\* missing item, the profile being looked at before repoRoot.
ConfigurationErrorIsFatal ==
  IncompleteConfiguration =>
    /\ pc \in {"start", "threw"}
    /\ changed = NotYet /\ graph = NotYet /\ semantic = NotYet
    /\ filterInput = NotYet /\ filterOut = NotYet /\ result = NotYet
    /\ pc = "threw" => thrown = ExpectedConfigurationMessage

\* A call without a profile and without repoRoot has failed on the profile.
ConfigurationErrorIsFatalWitness ==
  /\ pc = "threw"
  /\ ~options.profile.given /\ options.repoRoot = Null
  /\ thrown = "Missing required profile configuration"
  /\ result = NotYet

\* The git diffs the call runs: the comparison of the base with HEAD when a
\* base ref is given, the comparison of the working tree with HEAD unless
\* the options leave it out.
ConsumedDiffs ==
  (IF options.baseRef # Null THEN {"baseHead"} ELSE {})
  \cup (IF options.baseRef = Null \/ options.includeWorkingTreeWithBase
          THEN {"workingTree"} ELSE {})

NoResultReturned == pc \in {"start", "threw"} /\ result = NotYet

\* C12 as stated: when a git command the normalizer consumes (one of the
\* diffs it runs, or the listing of the untracked files) exits with a
\* non-zero status, the call fails and returns no result.
EnumerationFailureIsFatal ==
  (\E c \in ConsumedDiffs \cup {"untracked"} : repo.git[c].status # 0)
    => NoResultReturned

\* C12, for the diffs only: when a git diff the normalizer runs exits with
\* a non-zero status, the call fails with the error of runDiffAndParse and
\* returns no result.
DiffFailureIsFatal ==
  (\E c \in ConsumedDiffs : repo.git[c].status # 0)
    => /\ NoResultReturned
       /\ pc = "threw" => thrown = "git diff failed with code"

\* The listing of the untracked files has failed and the call has returned.
UntrackedFailureReturnsWitness ==
  /\ repo.git.untracked.status # 0
  /\ pc = "done"
  /\ result # NotYet

\* The lines of the diffs the call has run, in the order the call
\* combines them.
ConsumedLines ==
  (IF "baseHead" \in ConsumedDiffs THEN repo.git.baseHead.stdout ELSE <<>>)
  \o (IF "workingTree" \in ConsumedDiffs
        THEN repo.git.workingTree.stdout ELSE <<>>)

\* A line without a status or without a path: fewer than two fields, or a
\* rename or copy without its second path.
IsMalformedLine(line) ==
  \/ Len(line) < 2
  \/ line[1] \in {"R100", "C75"} /\ Len(line) < 3

MalformedLines == SelectSeq(ConsumedLines, IsMalformedLine)

IsWellFormedLine(line) == ~IsMalformedLine(line)

WellFormedLines == SelectSeq(ConsumedLines, IsWellFormedLine)

IsFallbackWarning(w) == w[1] = "Status fallback"

NormalizerWarnings == changed.changedEntriesResult.warnings

\* C13 as stated: the normalizer skips each malformed line of the diffs and
\* returns a warning for it, that is, its warnings hold as many warnings
\* that are not status fallbacks as there are malformed lines.
MalformedLinesWarned ==
  pc = "normalize-done" =>
    /\ changed.changedEntriesResult.changedEntriesBySource.fromBaseHead
         + changed.changedEntriesResult.changedEntriesBySource.fromWorkingTree
       = Len(WellFormedLines)
    /\ Len(NormalizerWarnings)
         - Len(SelectSeq(NormalizerWarnings, IsFallbackWarning))
       = Len(MalformedLines)

\* C13, what the normalizer does: each malformed line is skipped, and no
\* warning is returned for it.
MalformedLinesSkippedSilently ==
  pc = "normalize-done" =>
    /\ changed.changedEntriesResult.changedEntriesBySource.fromBaseHead
         + changed.changedEntriesResult.changedEntriesBySource.fromWorkingTree
       = Len(WellFormedLines)
    /\ \A i \in 1..Len(NormalizerWarnings) :
         IsFallbackWarning(NormalizerWarnings[i])

\* The normalizer has returned from diffs that printed a malformed line
\* and nothing else.
MalformedLinesSkippedWitness ==
  /\ pc = "normalize-done"
  /\ Len(MalformedLines) > 0
  /\ WellFormedLines = <<>>
  /\ changed.changedEntriesResult.entries = <<>>
  /\ NormalizerWarnings = <<>>

\* The canonical status the normalizer is documented to give to a line:
\* a copy counts as added, any status outside A, M, D, R as modified.
DocumentedStatus(line) ==
  IF line[1] \in {"A", "D"} THEN line[1]
  ELSE IF line[1] = "R100" THEN "R"
  ELSE IF line[1] = "C75" THEN "A"
  ELSE "M"

\* The inputs of the merge, as pairs of an effective path and a canonical
\* status: the well-formed lines of the diffs and the untracked sources
\* the profile accepts.
MergeInputs ==
  {<<WellFormedLines[i][Len(WellFormedLines[i])],
     DocumentedStatus(WellFormedLines[i])>> : i \in 1..Len(WellFormedLines)}
  \cup {<<p, "A">> :
          p \in {q \in SeqToSet(repo.git.untracked.stdout) :
                   repo.git.untracked.status = 0 /\ IsRelevantPomPath(q)}}

\* Deleted > Renamed > Modified > Added.
DocumentedRank(status) ==
  IF status = "D" THEN 4 ELSE IF status = "R" THEN 3
  ELSE IF status = "M" THEN 2 ELSE 1

NormalizedEntries == changed.changedEntriesResult.entries

\* C14: the normalizer returns exactly one entry for each effective path of
\* its inputs and none for any other path, and the status of the entry is
\* the status of highest priority (D > R > M > A) among the inputs with
\* that path, whatever the order in which the sources print them.
OneEntryPerPathOfHighestPriority ==
  pc = "normalize-done" =>
    /\ \A i, j \in 1..Len(NormalizedEntries) :
         i # j =>
           NormalizedEntries[i].effectivePath
             # NormalizedEntries[j].effectivePath
    /\ {NormalizedEntries[i].effectivePath : i \in 1..Len(NormalizedEntries)}
         = {input[1] : input \in MergeInputs}
    /\ \A i \in 1..Len(NormalizedEntries) :
         /\ <<NormalizedEntries[i].effectivePath,
              NormalizedEntries[i].status>> \in MergeInputs
         /\ \A input \in MergeInputs :
              input[1] = NormalizedEntries[i].effectivePath =>
                DocumentedRank(input[2])
                  <= DocumentedRank(NormalizedEntries[i].status)

\* The three sources name the same path as modified, then renamed, as
\* deleted and as untracked: the one entry returned is the deleted one.
OneEntryPerPathWitness ==
  /\ pc = "normalize-done"
  /\ repo.git.baseHead.stdout
       = <<<<"M", PomFile>>, <<"R100", OldPomFile, PomFile>>>>
  /\ repo.git.workingTree.stdout = <<<<"D", PomFile>>>>
  /\ options.includeWorkingTreeWithBase
  /\ repo.git.untracked.stdout # <<>>
  /\ Len(NormalizedEntries) = 1
  /\ NormalizedEntries[1].status = "D"

\* A well-formed line whose status is not one of A, M, D and R, in either
\* case of the letter.
HasFallbackStatus(line) == line[1] \notin {"A", "M", "D", "R100", "m"}

FallbackLines == SelectSeq(WellFormedLines, HasFallbackStatus)

\* The status-fallback warning documented for a line.
DocumentedFallbackWarning(line) ==
  <<"Status fallback", line[1], DocumentedStatus(line), line[Len(line)]>>

\* C15: the normalizer returns one status-fallback warning for each
\* consumed entry whose status is not A, M, D or R, in the order of the
\* entries, naming the status it was mapped to (C to A, any other to M),
\* and none for an entry with a canonical status; statusFallbackHits is
\* the number of these warnings, and every entry returned has a canonical
\* status.
FallbackCountedAndWarnedOnce ==
  pc = "normalize-done" =>
    /\ Len(NormalizerWarnings) = Len(FallbackLines)
    /\ \A i \in 1..Len(FallbackLines) :
         NormalizerWarnings[i] = DocumentedFallbackWarning(FallbackLines[i])
    /\ changed.changedEntriesResult.statusFallbackHits = Len(FallbackLines)
    /\ \A i \in 1..Len(NormalizedEntries) :
         NormalizedEntries[i].status \in {"A", "M", "D", "R"}

\* The diffs printed a copy, a type change and a modification: two
\* fallbacks are counted and warned about.
FallbackCountedWitness ==
  /\ pc = "normalize-done"
  /\ repo.git.baseHead.stdout
       = <<<<"C75", OldPomFile, PomFile>>, <<"m", HelperFile>>>>
  /\ repo.git.workingTree.stdout = <<<<"T", PomFile>>>>
  /\ options.includeWorkingTreeWithBase
  /\ changed.changedEntriesResult.statusFallbackHits = 2
  /\ Len(NormalizerWarnings) = 2

StageZeroDone == pc \notin {"start", "threw"}

ChangedPomEntrySet == SeqToSet(changed.changedPomEntries)

\* C16 as stated: every entry of changedPomEntries has an effective path
\* the profile predicate accepts.
PomEntriesHaveAcceptedEffectivePath ==
  StageZeroDone =>
    \A e \in ChangedPomEntrySet : IsRelevantPomPath(e.effectivePath)

\* C16, amended: changedPomEntries holds exactly the normalized entries of
\* which the profile predicate accepts the effective path, the old path or
\* the new path; an entry none of whose paths is accepted is dropped.
PomEntriesHaveAnAcceptedPath ==
  StageZeroDone =>
    \A e \in SeqToSet(changed.changedEntriesResult.entries) :
      e \in ChangedPomEntrySet
        <=> \/ IsRelevantPomPath(e.effectivePath)
            \/ e.oldPath # Null /\ IsRelevantPomPath(e.oldPath)
            \/ e.newPath # Null /\ IsRelevantPomPath(e.newPath)

\* The page-object file was renamed out of the scope of the profile and a
\* spec was modified: the rename takes part in the analysis, the spec
\* entry does not.
PomEntriesHaveAnAcceptedPathWitness ==
  /\ pc = "done"
  /\ \E e \in ChangedPomEntrySet :
       /\ e.status = "R" /\ e.oldPath = PomFile
       /\ e.effectivePath = MovedFile /\ ~IsRelevantPomPath(MovedFile)
  /\ \E e \in SeqToSet(changed.changedEntriesResult.entries) :
       e.effectivePath = SpecA /\ e \notin ChangedPomEntrySet

\* The untracked spec files: the paths git ls-files --others lists that lie
\* under changedSpecPrefix and are spec files.
UntrackedSpecs ==
  {p \in SeqToSet(repo.git.untracked.stdout) :
     HasChangedSpecPrefix(p) /\ IsSpecPath(p)}

\* The untracked spec p is not a directly changed spec of the call and is
\* not selected as one.
NotDirectlyChanged(p) ==
  /\ p \notin SeqToSet(changed.directChangedSpecFiles)
  /\ pc = "done" =>
       \A b \in SelectionBiases :
         PathJoin(RepoRoot, p) \in DOMAIN result[b].selectionReasons =>
           result[b].selectionReasons[PathJoin(RepoRoot, p)]
             # "direct-changed-spec"

\* C17 as stated: with includeUntrackedSpecs false, no untracked spec file
\* is a directly changed spec or selected as one, whatever the profile.
UntrackedSpecsNeverDirectWhenDisabled ==
  StageZeroDone /\ ~options.includeUntrackedSpecs =>
    \A p \in UntrackedSpecs : NotDirectlyChanged(p)

\* C17, for the profiles whose predicate rejects the spec files: with
\* includeUntrackedSpecs false, no untracked spec file is a directly
\* changed spec or selected as one.
UntrackedSpecsNotDirectUnlessSources ==
  StageZeroDone /\ ~options.includeUntrackedSpecs =>
    \A p \in UntrackedSpecs : ~IsRelevantPomPath(p) => NotDirectlyChanged(p)

\* With includeUntrackedSpecs false and a profile predicate that accepts
\* the untracked spec file, the call has returned the file as a directly
\* changed spec.
UntrackedSpecDirectWitness ==
  /\ pc = "done"
  /\ ~options.includeUntrackedSpecs
  /\ SpecB \in UntrackedSpecs
  /\ SpecB \in SeqToSet(changed.directChangedSpecFiles)
  /\ \A b \in SelectionBiases :
       result[b].selectionReasons[PathJoin(RepoRoot, SpecB)]
         = "direct-changed-spec"

\* The effective path of a well-formed line: its last field.
PathOfLine(line) == line[Len(line)]

\* The effective paths of the well-formed lines of an output.
PathsOfOutput(output) ==
  {PathOfLine(output.stdout[i]) :
     i \in {k \in 1..Len(output.stdout) :
              IsWellFormedLine(output.stdout[k])}}

\* The paths that differ in the working tree only: those the comparison
\* of the working tree names and the comparison with the base does not.
WorkingTreeOnlyPaths ==
  PathsOfOutput(repo.git.workingTree) \ PathsOfOutput(repo.git.baseHead)

\* C18 as stated: with a base ref and includeWorkingTreeWithBase false,
\* the normalizer counts no entry from the working tree and returns no
\* entry for a path that differs in the working tree only, be it named by
\* the comparison of the working tree or listed as untracked.
WorkingTreeOnlyPathsIgnored ==
  pc = "normalize-done" /\ options.baseRef # Null
  /\ ~options.includeWorkingTreeWithBase =>
    /\ changed.changedEntriesResult.changedEntriesBySource.fromWorkingTree = 0
    /\ \A i \in 1..Len(NormalizedEntries) :
         NormalizedEntries[i].effectivePath
           \notin (WorkingTreeOnlyPaths
                     \cup (SeqToSet(repo.git.untracked.stdout)
                            \ PathsOfOutput(repo.git.baseHead)))

\* C18, amended: with a base ref and includeWorkingTreeWithBase false, the
\* normalizer counts no entry from the working tree, and the only entries
\* it returns for paths the comparison with the base does not name are
\* the added entries of the untracked sources the profile accepts.
WorkingTreeIgnoredWithBase ==
  pc = "normalize-done" /\ options.baseRef # Null
  /\ ~options.includeWorkingTreeWithBase =>
    /\ changed.changedEntriesResult.changedEntriesBySource.fromWorkingTree = 0
    /\ \A i \in 1..Len(NormalizedEntries) :
         NormalizedEntries[i].effectivePath
           \notin PathsOfOutput(repo.git.baseHead) =>
             /\ NormalizedEntries[i].effectivePath
                  \in SeqToSet(repo.git.untracked.stdout)
             /\ IsRelevantPomPath(NormalizedEntries[i].effectivePath)
             /\ NormalizedEntries[i].status = "A"
             /\ NormalizedEntries[i].rawStatus = "A (untracked source)"

\* The working tree modifies the helper file, the base comparison names
\* the page-object file only, and the normalizer has returned the entry
\* of the page-object file alone.
WorkingTreeIgnoredWitness ==
  /\ pc = "normalize-done"
  /\ options.baseRef # Null /\ ~options.includeWorkingTreeWithBase
  /\ repo.git.workingTree.stdout = <<<<"m", HelperFile>>>>
  /\ repo.git.baseHead.stdout = <<<<"M", PomFile>>>>
  /\ repo.git.untracked.stdout = <<>>
  /\ Len(NormalizedEntries) = 1
  /\ NormalizedEntries[1].effectivePath = PomFile

\* The statistics of the stages after Stage 0, but for the Stage A count,
\* are zero or empty in the result r.
LaterStatisticsZeroed(r) ==
  /\ \A st \in {"A", "M", "D", "R"} :
       r.semanticStats.changedPomEntriesByStatus[st] = 0
  /\ r.semanticStats.semanticChangedMethodsCount = 0
  /\ r.semanticStats.topLevelRuntimeChangedFiles = 0
  /\ r.propagationStats.impactedMethodsTotal = 0
  /\ r.droppedByMethodFilter = 0
  /\ r.retainedWithoutMethodFilter = 0
  /\ r.coverageStats.uncertainCallSites = 0
  /\ r.impactedClasses = {}
  /\ DOMAIN r.impactedMethodsByClass = {}
  /\ r.fixtureKeys = {}

\* C19 as stated: when global watch forces all specs, every intermediate
\* statistic of the result is zero or empty, the Stage A count included.
ForceAllZeroesEveryStatistic ==
  pc = "done" =>
    \A b \in SelectionBiases :
      result[b].forcedAllSpecs =>
        /\ result[b].stageASelectedCount = 0
        /\ LaterStatisticsZeroed(result[b])

\* C19, amended: when global watch forces all specs, the statistics of
\* the semantic stage, of the propagation and of the method filter are
\* zero or empty, and stageASelectedCount is the number of selected specs.
ForceAllZeroesLaterStatistics ==
  pc = "done" =>
    \A b \in SelectionBiases :
      result[b].forcedAllSpecs =>
        /\ result[b].stageASelectedCount = Len(result[b].selectedSpecs)
        /\ LaterStatisticsZeroed(result[b])

\* A watched file and the page-object file changed, all specs are forced:
\* two specs are selected and counted, the other statistics are zero.
ForceAllZeroesLaterStatisticsWitness ==
  /\ pc = "done"
  /\ Len(changed.changedPomEntries) > 0
  /\ \A b \in SelectionBiases :
       /\ result[b].forcedAllSpecs
       /\ result[b].stageASelectedCount = 2
       /\ LaterStatisticsZeroed(result[b])

\* The entry names a file at the base ref and a file in the working tree,
\* and the two files hold the same bytes.
ByteIdentical(entry) ==
  /\ entry.oldPath # Null
  /\ entry.newPath # Null
  /\ entry.oldPath \in DOMAIN repo.base
  /\ repo.files[entry.newPath] \notin {Absent, Unreadable}
  /\ repo.base[entry.oldPath] = repo.files[entry.newPath]

\* Every changed page-object entry is byte-identical, and there is one.
OnlyByteIdenticalEntries ==
  /\ Len(changed.changedPomEntries) > 0
  /\ \A i \in 1..Len(changed.changedPomEntries) :
       ByteIdentical(changed.changedPomEntries[i])

\* C20: a changed entry, a rename included, whose base content and head
\* content are byte-identical adds no changed member and no top-level
\* runtime change, and a change set made only of such entries is reported
\* with semanticChangedMethodsCount = 0.
IdenticalContentChangesNothing ==
  /\ StageZeroDone =>
       \A i \in 1..Len(changed.changedPomEntries) :
         ByteIdentical(changed.changedPomEntries[i]) =>
           ChangedMethodsOfEntry(repo, changed.changedPomEntries[i])
             = [pairs |-> {}, runtimeChanged |-> FALSE]
  /\ (pc = "done" /\ OnlyByteIdenticalEntries) =>
       \A b \in SelectionBiases :
         /\ result[b].semanticStats.semanticChangedMethodsCount = 0
         /\ result[b].semanticStats.topLevelRuntimeChangedFiles = 0

\* pages/Old.ts was renamed to pages/P.ts with no edit: the analysis runs
\* to its end, counts one entry of status R and no changed method.
IdenticalContentChangesNothingWitness ==
  /\ pc = "done"
  /\ OnlyByteIdenticalEntries
  /\ \E i \in 1..Len(changed.changedPomEntries) :
       /\ changed.changedPomEntries[i].status = "R"
       /\ changed.changedPomEntries[i].oldPath = OldPomFile
       /\ changed.changedPomEntries[i].newPath = PomFile
  /\ \A b \in SelectionBiases :
       /\ ~result[b].forcedAllSpecs
       /\ result[b].semanticStats.changedPomEntriesByStatus["R"] = 1
       /\ result[b].semanticStats.semanticChangedMethodsCount = 0

\* The revision of the entry at the base ref and the one in the working
\* tree, NoContent where the entry names no path or the file is missing.
BaseRevisionOf(entry) ==
  IF entry.oldPath # Null /\ entry.oldPath \in DOMAIN repo.base
    THEN repo.base[entry.oldPath] ELSE NoContent

HeadRevisionOf(entry) ==
  IF entry.newPath # Null /\ repo.files[entry.newPath] # Absent
    THEN repo.files[entry.newPath] ELSE NoContent

\* The texts of the statements of a revision that are no class
\* declaration, interface, type alias, type-only import or type-only
\* export.
DocumentedRuntimeTexts(revision) ==
  IF revision = NoContent THEN <<>>
  ELSE LET kept == FilterSeq(revision.statements,
                     {st \in SeqToSet(revision.statements) :
                        /\ st.kind \notin {"interface", "type-alias"}
                        /\ ~(st.kind \in {"import", "export"}
                             /\ st.typeOnly)})
       IN [i \in 1..Len(kept) |-> kept[i].text]

\* The entries whose concatenated runtime fingerprint differs.
RuntimeChangedEntries ==
  {i \in 1..Len(changed.changedPomEntries) :
     DocumentedRuntimeTexts(BaseRevisionOf(changed.changedPomEntries[i]))
     # DocumentedRuntimeTexts(HeadRevisionOf(changed.changedPomEntries[i]))}

\* The callable members the classes of a revision declare, as
\* <<class, member>> pairs.
DeclaredCallables(revision) ==
  IF revision = NoContent THEN {}
  ELSE UNION {{<<revision.classes[i].name, m.name>> :
                 m \in {x \in SeqToSet(revision.classes[i].members) :
                          x.type # "field"}} :
                i \in 1..Len(revision.classes)}

\* C21: a file whose top-level runtime statements differ between base
\* and head is counted once in topLevelRuntimeChangedFiles and every
\* callable member of every class of either revision is a changed method;
\* a file that differs only in type-only imports or exports, interfaces,
\* type aliases or class declarations is not counted.
RuntimeChangeMarksEveryCallable ==
  pc = "semantic-done" =>
    /\ semantic.stats.topLevelRuntimeChangedFiles
         = Cardinality(RuntimeChangedEntries)
    /\ \A i \in RuntimeChangedEntries :
         \A pair \in
             DeclaredCallables(BaseRevisionOf(changed.changedPomEntries[i]))
             \cup
             DeclaredCallables(HeadRevisionOf(changed.changedPomEntries[i])) :
           /\ pair[1] \in DOMAIN semantic.changedMethodsByClass
           /\ pair[2] \in semantic.changedMethodsByClass[pair[1]]

\* The page-object file lost its export statement and the helper file
\* changed one method: one file is counted, every callable of PageA and of
\* PageB is a changed method, and of the helper file only Widget.click.
RuntimeChangeMarksEveryCallableWitness ==
  /\ pc = "semantic-done"
  /\ Len(changed.changedPomEntries) = 2
  /\ RuntimeChangedEntries = {1}
  /\ BaseRevisionOf(changed.changedPomEntries[1]).classes
       = HeadRevisionOf(changed.changedPomEntries[1]).classes
  /\ BaseRevisionOf(changed.changedPomEntries[1]).statements
       = <<Statement("interface", FALSE, 6), Statement("other", FALSE, 8)>>
  /\ HeadRevisionOf(changed.changedPomEntries[1]).statements
       = <<Statement("interface", FALSE, 6), Statement("import", TRUE, 3)>>
  /\ semantic.stats.topLevelRuntimeChangedFiles = 1
  /\ semantic.changedMethodsByClass
       = [c \in {"PageA", "PageB", "Widget"} |->
            IF c = "PageA" THEN {"open", "leaf"}
            ELSE IF c = "PageB" THEN {"constructor", "value"}
            ELSE {"click"}]

\* The place of the text of a warning among the texts of the warnings in
\* lexicographic order, as far as the words before the first name decide
\* it: "Deep this.* chain", "Dynamic super[...]", "Dynamic this[...]",
\* "Status fallback", "Uncertain callsite retained spec", "Unknown
\* composed field type", "Unresolvable composed call", "Unresolvable
\* super", "Unresolvable this".
WarningRank(w) ==
  IF w[1] = "Treated as uncertain"
    THEN (IF w[2] = "deep" THEN 1 ELSE IF w[2] = "superDyn" THEN 2 ELSE 3)
  ELSE IF w[1] = "Status fallback" THEN 4
  ELSE IF w[1] = "Uncertain callsite retained spec" THEN 5
  ELSE IF w[1] = "Unknown composed field type" THEN 6
  ELSE IF w[1] = "Unresolvable composed call" THEN 7
  ELSE IF w[2] = "super" THEN 8
  ELSE 9

\* C22: the warnings of the result are in lexicographic order: no warning
\* comes before one whose text starts with lesser words.
WarningsSorted ==
  pc = "done" =>
    \A b \in SelectionBiases :
      \A i, j \in 1..Len(result[b].warnings) :
        i < j => WarningRank(result[b].warnings[i])
                   <= WarningRank(result[b].warnings[j])

\* The warnings of the result are those of the change set, then those of
\* the propagation, then those of the method filter, each in the order
\* in which they were pushed.
WarningsInStageOrder ==
  pc = "done" =>
    \A b \in SelectionBiases :
      ~result[b].forcedAllSpecs /\ filterOut # NotYet =>
        result[b].warnings
          = changed.changedEntriesResult.warnings
            \o semantic.propagationWarnings \o filterOut[b].warnings

\* The candidates of one call of filterSpecsByImpactedMethods that reach
\* the call-site matching.
CallSiteCandidates ==
  {p \in SeqToSet(filterInput.selectedSpecs) :
     /\ p \notin SeqToSet(filterInput.directChangedSpecsAbs)
     /\ p \notin SeqToSet(filterInput.alwaysIncludeSpecsAbs)
     /\ Readable(filterInput.files, PathRelative(RepoRoot, p))
     /\ DOMAIN filterInput.impactedMethodsByClass # {}
     /\ DOMAIN ExtractFixtureVariablesFromSpecAst(
                 filterInput.files[PathRelative(RepoRoot, p)],
                 filterInput.fixtureKeyToClass, filterInput.fixtureKeys) # {}}

\* The call sites of the spec p on a fixture variable, as indices of its
\* nodes.
FixtureCallsOf(p) ==
  {i \in 1..Len(filterInput.files[PathRelative(RepoRoot, p)].nodes) :
     /\ filterInput.files[PathRelative(RepoRoot, p)].nodes[i].kind = "call"
     /\ filterInput.files[PathRelative(RepoRoot, p)].nodes[i].root
          \in DOMAIN ExtractFixtureVariablesFromSpecAst(
                        filterInput.files[PathRelative(RepoRoot, p)],
                        filterInput.fixtureKeyToClass,
                        filterInput.fixtureKeys)}

\* The chain depth of a call site as documented: the accesses between the
\* root identifier and the callee name, the access of the callee name
\* included, so that var.m() has depth 1 and var.a.b.m() depth 3.
DocumentedChainDepth(node) == node.depth + 1

\* C26: every call on a fixture variable of chain depth above 2 is counted
\* as an uncertain call site, and a spec is matched precisely only through
\* a call of chain depth at most 2 on an impacted method.
DeepChainsAreUncertain ==
  pc = "filter-done" =>
    \A b \in SelectionBiases :
      \A p \in CallSiteCandidates :
        LET nodes == filterInput.files[PathRelative(RepoRoot, p)].nodes
            vars2 == ExtractFixtureVariablesFromSpecAst(
                       filterInput.files[PathRelative(RepoRoot, p)],
                       filterInput.fixtureKeyToClass, filterInput.fixtureKeys)
        IN /\ filterOut[b].uncertainCallSites
                >= Cardinality({i \in FixtureCallsOf(p) :
                      DocumentedChainDepth(nodes[i])
                        > MAX_PRECISE_CHAIN_DEPTH})
           /\ (/\ p \in DOMAIN filterOut[b].selectionReasons
               /\ filterOut[b].selectionReasons[p] = "matched-precise") =>
                \E i \in FixtureCallsOf(p) :
                  /\ DocumentedChainDepth(nodes[i]) <= MAX_PRECISE_CHAIN_DEPTH
                  /\ nodes[i].access # "elemDyn"
                  /\ nodes[i].method
                       \in MapGet(filterInput.impactedMethodsByClass,
                                  vars2[nodes[i].root], {})

\* The same with the depth of the expression the method is called on, the
\* access of the callee name left out: var.a.b.m() has depth 2 and can be
\* matched precisely, var.a.b.c.m() has depth 3 and is uncertain.
DeepObjectChainsAreUncertain ==
  pc = "filter-done" =>
    \A b \in SelectionBiases :
      \A p \in CallSiteCandidates :
        LET nodes == filterInput.files[PathRelative(RepoRoot, p)].nodes
            vars2 == ExtractFixtureVariablesFromSpecAst(
                       filterInput.files[PathRelative(RepoRoot, p)],
                       filterInput.fixtureKeyToClass, filterInput.fixtureKeys)
        IN /\ filterOut[b].uncertainCallSites
                >= Cardinality({i \in FixtureCallsOf(p) :
                      nodes[i].depth > MAX_PRECISE_CHAIN_DEPTH})
           /\ (/\ p \in DOMAIN filterOut[b].selectionReasons
               /\ filterOut[b].selectionReasons[p] = "matched-precise") =>
                \E i \in FixtureCallsOf(p) :
                  /\ nodes[i].depth <= MAX_PRECISE_CHAIN_DEPTH
                  /\ nodes[i].access # "elemDyn"
                  /\ nodes[i].method
                       \in MapGet(filterInput.impactedMethodsByClass,
                                  vars2[nodes[i].root], {})

\* The first spec calls page.a.b.leaf() and page.a.b.c.goto(), leaf being
\* impacted: the first call is a precise match, the second is counted as
\* uncertain.
DeepObjectChainsAreUncertainWitness ==
  /\ pc = "filter-done"
  /\ PathJoin(RepoRoot, SpecA) \in CallSiteCandidates
  /\ filterInput.files[SpecA].nodes
       = <<Call("prop", "page", "leaf", MAX_PRECISE_CHAIN_DEPTH),
           Call("prop", "page", "goto", MAX_PRECISE_CHAIN_DEPTH + 1)>>
  /\ Len(filterInput.selectedSpecs) = 1
  /\ \A b \in SelectionBiases :
       /\ PathJoin(RepoRoot, SpecA) \in DOMAIN filterOut[b].selectionReasons
       /\ filterOut[b].selectionReasons[PathJoin(RepoRoot, SpecA)]
            = "matched-precise"
       /\ filterOut[b].uncertainCallSites = 1

\* The semantic stage of the run has parsed the fixture declaration file:
\* the maps it used are those of parseFixtureMappings.
FixtureMappingsParsed ==
  /\ pc \in {"selected", "done"}
  /\ semantic # NotYet
  /\ Readable(repo.files, TypesFile)
  /\ DOMAIN semantic.fixtureKeyToClass # {}
  /\ semantic.fixtureKeyToClass
       = ParseFixtureMappings(repo.files).fixtureKeyToClass

\* The two maps are inverses of each other.
AreInverse(classToFixtureKeys, fixtureKeyToClass) ==
  \A c \in DOMAIN classToFixtureKeys \cup
            {fixtureKeyToClass[k] : k \in DOMAIN fixtureKeyToClass} :
    \A k \in DOMAIN fixtureKeyToClass \cup
              UNION {classToFixtureKeys[d] : d \in DOMAIN classToFixtureKeys} :
      (c \in DOMAIN classToFixtureKeys /\ k \in classToFixtureKeys[c])
        <=> (k \in DOMAIN fixtureKeyToClass /\ fixtureKeyToClass[k] = c)

\* C27: for every declaration file, fixture key k is in
\* classToFixtureKeys[C] if and only if fixtureKeyToClass[k] = C.
FixtureMapsAreInverse ==
  FixtureMappingsParsed =>
    AreInverse(ParseFixtureMappings(repo.files).classToFixtureKeys,
               ParseFixtureMappings(repo.files).fixtureKeyToClass)

\* The same for the declaration files that declare no fixture key for two
\* classes.
FixtureMapsAreInverseForUniqueKeys ==
  (FixtureMappingsParsed
   /\ \A c, d \in DOMAIN ParseFixtureMappings(repo.files).classToFixtureKeys :
        c # d => ParseFixtureMappings(repo.files).classToFixtureKeys[c]
                   \cap ParseFixtureMappings(repo.files).classToFixtureKeys[d]
                 = {}) =>
    AreInverse(ParseFixtureMappings(repo.files).classToFixtureKeys,
               ParseFixtureMappings(repo.files).fixtureKeyToClass)

\* The classes the scanned files name, as a child or as a parent.
ScannedClasses ==
  DOMAIN graph.parentsByChild
  \cup {graph.parentsByChild[c] : c \in DOMAIN graph.parentsByChild}

RECURSIVE AncestorsWithin(_, _, _)
\* The classes met on the upward walk from className in at most steps
\* steps, className itself left out unless the walk comes back to it.
AncestorsWithin(parentsByChild, className, steps) ==
  IF steps = 0 \/ className \notin DOMAIN parentsByChild THEN {}
  ELSE {parentsByChild[className]}
       \cup AncestorsWithin(parentsByChild, parentsByChild[className],
                            steps - 1)

\* C28: parentsByChild is a forest: every class has at most one parent and
\* no class is its own ancestor, so that every upward walk ends.
InheritanceIsForest ==
  pc = "inheritance-done" =>
    \A c \in ScannedClasses :
      c \notin AncestorsWithin(graph.parentsByChild, c,
                               Cardinality(ScannedClasses))

\* The same for the files in which no class extends, through any chain of
\* extends clauses of any file, a class of its own name.
InheritanceIsForestWithoutNameCycle ==
  pc = "inheritance-done" =>
    LET decls == UNION {{<<f.classes[i].name, f.classes[i].parent>> :
                          i \in 1..Len(f.classes)} :
                        f \in SeqToSet(repo.contents)}
        Reach[n \in 0..4] ==
          IF n = 0 THEN {d \in decls : d[2] # Null}
          ELSE Reach[n - 1]
               \cup {<<de[1][1], de[2][2]>> :
                       de \in {x \in Reach[n - 1] \X decls :
                                 x[2][2] # Null /\ x[2][1] = x[1][2]}}
    IN (\A d \in Reach[4] : d[1] # d[2]) =>
         \A c \in ScannedClasses :
           c \notin AncestorsWithin(graph.parentsByChild, c,
                                    Cardinality(ScannedClasses))

\* C29: childrenByParent is the transpose of parentsByChild: c is in
\* childrenByParent[p] if and only if parentsByChild[c] = p.
ChildrenIsTranspose ==
  pc = "inheritance-done" =>
    \A c, q \in ScannedClasses \cup DOMAIN graph.childrenByParent :
      (q \in DOMAIN graph.childrenByParent
       /\ c \in graph.childrenByParent[q])
        <=> (c \in DOMAIN graph.parentsByChild
             /\ graph.parentsByChild[c] = q)

\* The same for the files in which no class name is declared with two
\* different parents.
ChildrenIsTransposeForOneParent ==
  pc = "inheritance-done" =>
    LET decls == UNION {{<<f.classes[i].name, f.classes[i].parent>> :
                          i \in 1..Len(f.classes)} :
                        f \in SeqToSet(repo.contents)}
    IN (\A d, e \in decls :
          d[1] = e[1] /\ d[2] # Null /\ e[2] # Null => d[2] = e[2]) =>
         \A c, q \in ScannedClasses \cup DOMAIN graph.childrenByParent :
           (q \in DOMAIN graph.childrenByParent
            /\ c \in graph.childrenByParent[q])
             <=> (c \in DOMAIN graph.parentsByChild
                  /\ graph.parentsByChild[c] = q)

\* The traversal taken turn by turn returns what the call returns.
PropagationReturnsTheCallResult ==
  pc = "propagation-done" =>
    result = BuildImpactedMethodsByClass(semantic.impactedClasses,
                                         semantic.changedMethodsByClass,
                                         graph.parentsByChild, repo.contents)

\* The call edges of the page files as TypeScript runs them: one edge for
\* each call this.x(), this["x"](), super.x() or this.field.x() in the
\* body of each callable member, of a getter and of a setter of one name
\* alike, to the member the call resolves to.
ResolvedCallEdges(classes, keys, parentsByChild) ==
  UNION {UNION {UNION {{<<<<c.name, m.name>>, k>> :
                          k \in VisitCallSite(site, c.name, classes, keys,
                                              parentsByChild).callees} :
                       site \in {x \in SeqToSet(m.calls) :
                                   x.via \in {"this", "super", "field"}}} :
                m \in {x \in SeqToSet(c.members) :
                         IsCallableType(x.type) /\ x.hasBody}} :
         c \in SeqToSet(classes)}

RECURSIVE CallersClosure(_, _, _)
\* The member keys that are in reached or reach it through edges; steps
\* bounds the length of the paths.
CallersClosure(reached, edges, steps) ==
  IF steps = 0 THEN reached
  ELSE CallersClosure(reached \cup {e[1] : e \in {x \in edges :
                                                     x[2] \in reached}},
                      edges, steps - 1)

\* The changed callables: the member keys changedMethodsByClass names.
ChangedCallables(changedMethodsByClass, keys) ==
  {k \in keys : k[2] \in MapGet(changedMethodsByClass, k[1], {})}

\* C23: after the propagation every changed callable, and every callable
\* that reaches one through resolved call edges, is recorded under its own
\* class, also in a class with a getter and a setter of one name.
PropagationRecordsEveryCaller ==
  pc = "propagation-done" =>
    LET classes == ClassesOfFiles(repo.contents)
        keys == CallableMemberKeys(classes)
    IN \A k \in CallersClosure(
                   ChangedCallables(semantic.changedMethodsByClass, keys),
                   ResolvedCallEdges(classes, keys, graph.parentsByChild),
                   Cardinality(keys)) :
         k[2] \in MapGet(result.impactedMethodsByClass, k[1], {})

\* The same for the callers the propagation has an edge for, in the
\* classes it projects on.
PropagationRecordsEveryAnalysedCaller ==
  pc = "propagation-done" =>
    LET classes == ClassesOfFiles(repo.contents)
        keys == CallableMemberKeys(classes)
    IN \A k \in CallersClosure(
                   ChangedCallables(semantic.changedMethodsByClass, keys),
                   traversal.edges, Cardinality(keys)) :
         k[1] \in ClassesForProjection(semantic.impactedClasses, classes,
                                       graph.parentsByChild)
           => k[2] \in MapGet(result.impactedMethodsByClass, k[1], {})

\* n is a changed member in the lineage of className, or the member n
\* that className resolves is a seed of the traversal or reaches one
\* through the edges of the traversal.
IsRelatedName(className, n, classes, keys) ==
  \/ HasChangedMethodInLineage(className, n, semantic.changedMethodsByClass,
                               graph.parentsByChild)
  \/ ResolveCallableMemberKey(className, n, keys, graph.parentsByChild,
                              "this")
       \in CallersClosure(SeedKeys(semantic.changedMethodsByClass, keys,
                                   graph.parentsByChild),
                          traversal.edges, Cardinality(keys))

RECURSIVE ClosedUnder(_, _, _, _, _)
\* The least set that contains projectionSet and is closed under the
\* relations taken: the owners of a composed class, the children of a
\* parent.
ClosedUnder(projectionSet, classes, parentsByChild, relations, steps) ==
  IF steps = 0 THEN projectionSet
  ELSE ClosedUnder(
         projectionSet
         \cup (IF "owner" \in relations
                 THEN UNION {OwnerClasses(classes, c) : c \in projectionSet}
                 ELSE {})
         \cup (IF "child" \in relations
                 THEN {c \in DOMAIN parentsByChild :
                         parentsByChild[c] \in projectionSet}
                 ELSE {}),
         classes, parentsByChild, relations, steps - 1)

\* C25: when impactedClasses is not empty, the classes of the projection
\* are the least set that contains impactedClasses and is closed under
\* "owner of a composed instance of" and "child of" together.
ProjectionIsLeastClosedSet ==
  pc = "propagation-done" /\ semantic.impactedClasses # {} =>
    LET classes == ClassesOfFiles(repo.contents)
    IN ClassesForProjection(semantic.impactedClasses, classes,
                            graph.parentsByChild)
       = ClosedUnder(semantic.impactedClasses, classes, graph.parentsByChild,
                     {"owner", "child"}, Len(classes))

\* The classes of the projection are the owners, closed, and then their
\* descendants, closed.
ProjectionIsOwnersThenDescendants ==
  pc = "propagation-done" /\ semantic.impactedClasses # {} =>
    LET classes == ClassesOfFiles(repo.contents)
    IN ClassesForProjection(semantic.impactedClasses, classes,
                            graph.parentsByChild)
       = ClosedUnder(ClosedUnder(semantic.impactedClasses, classes,
                                 graph.parentsByChild, {"owner"},
                                 Len(classes)),
                     classes, graph.parentsByChild, {"child"}, Len(classes))

\* The while loop has ended: its queue is empty.
TraversalEnded == pc # "propagation-start" /\ traversal.queue = <<>>

\* No member key is shifted from the queue twice.
TraversalShiftsEachKeyOnce ==
  traversal # NotYet =>
    \A i, j \in 1..Len(traversal.shifted) :
      traversal.shifted[i] = traversal.shifted[j] => i = j

\* C30: the traversal over the reverse call edges ends on every call
\* graph, a callable that calls itself or two that call each other
\* included, and takes each member key at most once.
TraversalTerminatesVisitingOnce ==
  /\ []TraversalShiftsEachKeyOnce
  /\ (pc = "propagation-bfs" ~> TraversalEnded)

\* A traversal that has ended and has visited a member that calls itself
\* or calls its own caller.
TraversalTerminatesVisitingOnceWitness ==
  /\ pc = "propagation-done"
  /\ \E e \in traversal.edges :
       /\ e[2] \in traversal.visited
       /\ <<e[2], e[1]>> \in traversal.edges
       /\ Len(traversal.shifted) >= 2

====
